---- MODULE Spec2Model ----
(***************************************************************************)
(* A model of the recommendation ranker of Ai-Fashion                      *)
(* (src/services/recommendation_service.py).                               *)
(*                                                                         *)
(* Representation.                                                         *)
(*  - A Python str is a sequence of one-character strings, so that         *)
(*    lower(), the `in` substring test and hex parsing are computed.       *)
(*  - Python None is the value None below (no str equals it).              *)
(*  - A float score s is the integer floor(s * SCALE); a total score is    *)
(*    kept in units of 1/(100*SCALE) so the percent weights apply exactly. *)
(*  - A raised exception is a result record with a non-empty exc field.    *)
(***************************************************************************)
EXTENDS Integers, Sequences, FiniteSets, TLC

VARIABLES
    outfits_table,   \* rows of perfect_unified_outfits, in physical order
    makeup_table,    \* rows of perfect_unified_makeup, in physical order
    request,         \* the parameters of the last get_recommendations call
    outfits,         \* get_recommendations' local: the fetched outfits
    makeup,          \* get_recommendations' local: the fetched makeup
    response,        \* what the last get_recommendations call returned
    call,            \* the last direct call of a function
    candidates,      \* the fetched candidate dicts as the handler left them
    MONK_SKIN_TONES, \* the tone table a service loaded when it started
    mst_palette_data, \* EnhancedColorRecommendationService.mst_palette_data
    cached_data      \* MSTDatabaseService._cached_data

vars ==
    <<outfits_table, makeup_table, request, outfits, makeup, response, call,
      candidates, MONK_SKIN_TONES, mst_palette_data, cached_data>>

(***************************************************************************)
(* Bounds of the model.                                                    *)
(***************************************************************************)
MaxRows == 2         \* rows inserted one by one, both tables together
MaxImport == 16      \* rows of one bulk import of a single product
MaxPrice == 12       \* prices and budgets of the direct scorer calls

\* Resolution of the fixed-point scores: 1.0 is SCALE.
SCALE == 100 * 100

Min(a, b) == IF a < b THEN a ELSE b
Max(a, b) == IF a > b THEN a ELSE b

(***************************************************************************)
(* Python values.                                                          *)
(***************************************************************************)
None == << "None" >>
NullPrice == 0 - 1                  \* SQL NULL in the price column

Ok(v) == [exc |-> "", value |-> v]
Raise(e) == [exc |-> e, value |-> 0]

UpperChars == << "A","B","C","D","E","F","G","H","I","J","K","L","M",
                 "N","O","P","Q","R","S","T","U","V","W","X","Y","Z" >>
LowerChars == << "a","b","c","d","e","f","g","h","i","j","k","l","m",
                 "n","o","p","q","r","s","t","u","v","w","x","y","z" >>

\* str.lower(), one character
LowerChar(c) ==
    IF \E i \in 1..26 : UpperChars[i] = c
    THEN LowerChars[CHOOSE i \in 1..26 : UpperChars[i] = c]
    ELSE c

\* str.lower()
Lower(s) == [i \in 1..Len(s) |-> LowerChar(s[i])]

\* str.upper() is not needed by the ranker.

\* Python's `sub in s` on strings
Contains(s, sub) ==
    \E i \in 0..(Len(s) - Len(sub)) :
        \A j \in 1..Len(sub) : s[i + j] = sub[j]

\* dict.get(key, default) on a dict written as a sequence of <<key, value>>
DictGet(d, k, default) ==
    IF \E i \in 1..Len(d) : d[i][1] = k
    THEN d[CHOOSE i \in 1..Len(d) : d[i][1] = k][2]
    ELSE default

\* seq[:n]
Take(s, n) == SubSeq(s, 1, Min(n, Len(s)))

\* the same sequence, its elements evaluated once
Evaluated(s) == s \o << >>

(***************************************************************************)
(* The words the ranker's tables use.                                      *)
(***************************************************************************)
W_work == << "w","o","r","k" >>
W_casual == << "c","a","s","u","a","l" >>
W_festive_wedding ==
    << "f","e","s","t","i","v","e","_","w","e","d","d","i","n","g" >>
W_formal_black_tie ==
    << "f","o","r","m","a","l","_","b","l","a","c","k","_","t","i","e" >>
W_formal == << "f","o","r","m","a","l" >>
W_business == << "b","u","s","i","n","e","s","s" >>
W_professional == << "p","r","o","f","e","s","s","i","o","n","a","l" >>
W_party == << "p","a","r","t","y" >>
W_festive == << "f","e","s","t","i","v","e" >>
W_everyday == << "e","v","e","r","y","d","a","y" >>
W_weekend == << "w","e","e","k","e","n","d" >>
W_celebration == << "c","e","l","e","b","r","a","t","i","o","n" >>
W_elegant == << "e","l","e","g","a","n","t" >>
W_black_tie == << "b","l","a","c","k","_","t","i","e" >>
W_light == << "l","i","g","h","t" >>
W_pastel == << "p","a","s","t","e","l" >>
W_dark == << "d","a","r","k" >>
W_black == << "b","l","a","c","k" >>
W_bright == << "b","r","i","g","h","t" >>
W_bold == << "b","o","l","d" >>
W_any == << "a","n","y" >>
W_unisex == << "u","n","i","s","e","x" >>

(***************************************************************************)
(* webcolors.hex_to_rgb: "#" and three or six hex digits, any case; a      *)
(* three-digit colour doubles each digit.  Anything else raises.           *)
(***************************************************************************)
HexDigits == << "0","1","2","3","4","5","6","7","8","9",
                "a","b","c","d","e","f" >>

IsHexDigit(c) == \E i \in 1..16 : HexDigits[i] = LowerChar(c)

HexVal(c) == (CHOOSE i \in 1..16 : HexDigits[i] = LowerChar(c)) - 1

hex_to_rgb(h) ==
    IF h = None
    THEN Raise("TypeError")
    ELSE IF /\ Len(h) \in {4, 7}
            /\ h[1] = "#"
            /\ \A i \in 2..Len(h) : IsHexDigit(h[i])
    THEN IF Len(h) = 7
         THEN Ok(<< 16 * HexVal(h[2]) + HexVal(h[3]),
                    16 * HexVal(h[4]) + HexVal(h[5]),
                    16 * HexVal(h[6]) + HexVal(h[7]) >>)
         ELSE Ok(<< 17 * HexVal(h[2]), 17 * HexVal(h[3]), 17 * HexVal(h[4]) >>)
    ELSE Raise("ValueError")

(***************************************************************************)
(* ciede2000_distance                                                      *)
(***************************************************************************)
RECURSIVE CeilSqrtIn(_, _, _)
\* the least s in lo..hi with s*s >= n, given hi*hi >= n
CeilSqrtIn(lo, hi, n) ==
    IF lo >= hi
    THEN hi
    ELSE LET mid == (lo + hi) \div 2
         IN IF mid * mid >= n
            THEN CeilSqrtIn(lo, mid, n)
            ELSE CeilSqrtIn(mid + 1, hi, n)

\* ceil(100 * sqrt(d2)) for a squared RGB distance d2 <= 3 * 255^2
CeilSqrt100(d2) == CeilSqrtIn(0, 44168, d2 * 10000)

SquaredRgbDistance(c1, c2) ==
    (c1[1] - c2[1]) * (c1[1] - c2[1])
    + (c1[2] - c2[2]) * (c1[2] - c2[2])
    + (c1[3] - c2[3]) * (c1[3] - c2[3])

\* sqrt(...) / 441.67, rounded up to the next 1/SCALE
NormalizedDistance(c1, c2) ==
    (CeilSqrt100(SquaredRgbDistance(c1, c2)) * SCALE + 44166) \div 44167

\* Never raises: any exception inside gives the maximum distance 1.0.
ciede2000_distance(color1_hex, color2_hex) ==
    LET a == hex_to_rgb(color1_hex)
        b == hex_to_rgb(color2_hex)
    IN IF a.exc # "" \/ b.exc # ""
       THEN SCALE
       ELSE NormalizedDistance(a.value, b.value)

(***************************************************************************)
(* get_best_color_match                                                    *)
(***************************************************************************)
\* a percentage as a fixed-point score: Pct(95) is 0.95
Pct(n) == (n * SCALE) \div 100

\* Python truthiness of a str-or-None value
Falsy(s) == s = None \/ s = << >>

RECURSIVE BestMatchFrom(_, _, _, _, _)
\* the for loop over palette_colors, from entry i on
BestMatchFrom(product_color, palette_colors, i, best_score, best_match) ==
    IF i > Len(palette_colors)
    THEN [score |-> best_score, name |-> best_match]
    ELSE LET color == palette_colors[i]
             distance == ciede2000_distance(product_color, color.hex)
             score == Max(0, SCALE - distance)
         IN IF score > best_score
            THEN BestMatchFrom(product_color, palette_colors, i + 1,
                               score, color.name)
            ELSE BestMatchFrom(product_color, palette_colors, i + 1,
                               best_score, best_match)

\* a loop that returns after the first palette colour
get_best_color_match_FirstOnly(product_color, palette_colors) ==
    IF Falsy(product_color) \/ palette_colors = << >>
    THEN [score |-> 0, name |-> "No match"]
    ELSE BestMatchFrom(product_color, Take(palette_colors, 1), 1, 0,
                       "No match")

get_best_color_match(product_color, palette_colors) ==
    IF Falsy(product_color) \/ palette_colors = << >>
    THEN [score |-> 0, name |-> "No match"]
    ELSE BestMatchFrom(product_color, palette_colors, 1, 0, "No match")

(***************************************************************************)
(* calculate_occasion_score                                                *)
(***************************************************************************)
occasion_weights ==
    << << W_work,
          << <<W_formal, Pct(90)>>, <<W_business, Pct(95)>>,
             <<W_professional, Pct(90)>>, <<W_casual, Pct(30)>>,
             <<W_party, Pct(10)>>, <<W_festive, Pct(20)>> >> >>,
       << W_casual,
          << <<W_casual, Pct(95)>>, <<W_everyday, Pct(90)>>,
             <<W_weekend, Pct(90)>>, <<W_formal, Pct(20)>>,
             <<W_business, Pct(10)>>, <<W_party, Pct(70)>> >> >>,
       << W_festive_wedding,
          << <<W_festive, Pct(95)>>, <<W_party, Pct(90)>>,
             <<W_celebration, Pct(90)>>, <<W_formal, Pct(80)>>,
             <<W_elegant, Pct(85)>>, <<W_casual, Pct(30)>> >> >>,
       << W_formal_black_tie,
          << <<W_formal, Pct(95)>>, <<W_elegant, Pct(95)>>,
             <<W_black_tie, Pct(100)>>, <<W_business, Pct(70)>>,
             <<W_casual, Pct(10)>>, <<W_party, Pct(60)>> >> >> >>

\* product.get(key, "") for a record that may lack the key
FieldOr(product, key, default) ==
    IF key \in DOMAIN product THEN product[key] ELSE default

calculate_occasion_score(product, occasion) ==
    LET raw == FieldOr(product, "occasion", << >>)
    IN IF raw = None
       THEN Raise("AttributeError")          \* None.lower()
       ELSE LET product_occasion == Lower(raw)
            IN IF product_occasion = << >>
               THEN Ok(Pct(50))
               ELSE Ok(DictGet(DictGet(occasion_weights, occasion, << >>),
                               product_occasion, Pct(50)))

(***************************************************************************)
(* calculate_price_score                                                   *)
(***************************************************************************)
\* the under-budget branch without its 0.7 base: price / min_budget
calculate_price_score_NoBase(product_price, min_budget, max_budget) ==
    IF min_budget <= product_price /\ product_price <= max_budget
    THEN Ok(SCALE)
    ELSE IF product_price < min_budget
    THEN IF min_budget = 0
         THEN Raise("ZeroDivisionError")
         ELSE Ok((product_price * SCALE) \div min_budget)
    ELSE IF max_budget = 0
         THEN Raise("ZeroDivisionError")
         ELSE Ok(Max(Pct(10),
                     ((2 * max_budget - product_price) * SCALE)
                         \div max_budget))

calculate_price_score(product_price, min_budget, max_budget) ==
    IF min_budget <= product_price /\ product_price <= max_budget
    THEN Ok(SCALE)
    ELSE IF product_price < min_budget
    THEN IF min_budget = 0
         THEN Raise("ZeroDivisionError")
         ELSE Ok(((7 * min_budget + 3 * product_price) * SCALE)
                     \div (10 * min_budget))
    ELSE IF max_budget = 0
         THEN Raise("ZeroDivisionError")
         ELSE Ok(Max(Pct(10),
                     ((2 * max_budget - product_price) * SCALE)
                         \div max_budget))

(***************************************************************************)
(* calculate_contrast_score                                                *)
(***************************************************************************)
contrast_weights ==
    << << "light", << <<"light", Pct(100)>>, <<"soft", Pct(80)>>,
                      <<"medium", Pct(50)>>, <<"bold", Pct(20)>>,
                      <<"dark", Pct(10)>> >> >>,
       << "medium", << <<"medium", Pct(100)>>, <<"light", Pct(70)>>,
                       <<"soft", Pct(80)>>, <<"bold", Pct(70)>>,
                       <<"dark", Pct(60)>> >> >>,
       << "high", << <<"bold", Pct(100)>>, <<"dark", Pct(90)>>,
                     <<"dramatic", Pct(100)>>, <<"medium", Pct(60)>>,
                     <<"light", Pct(30)>> >> >> >>

calculate_contrast_score(product, contrast_level) ==
    LET raw_color == FieldOr(product, "hex_color", << >>)
        raw_category == FieldOr(product, "category", << >>)
    IN IF raw_color = None \/ raw_category = None
       THEN Raise("AttributeError")          \* None.lower()
       ELSE LET product_color == Lower(raw_color)
                product_category == Lower(raw_category)
                product_contrast ==
                    IF Contains(product_color, W_light)
                       \/ Contains(product_color, W_pastel)
                    THEN "light"
                    ELSE IF Contains(product_color, W_dark)
                            \/ Contains(product_color, W_black)
                    THEN "dark"
                    ELSE IF Contains(product_color, W_bright)
                            \/ Contains(product_category, W_bold)
                    THEN "bold"
                    ELSE "medium"
                weights == DictGet(contrast_weights, contrast_level,
                                   DictGet(contrast_weights, "medium", << >>))
            IN Ok(DictGet(weights, product_contrast, Pct(50)))

(***************************************************************************)
(* The SQL the fetch functions run.  The tables of the model hold the rows *)
(* that pass the gender, category and availability conditions of the       *)
(* WHERE clause; the occasion, undertone and price conditions, ORDER BY    *)
(* and LIMIT are computed here.                                            *)
(***************************************************************************)
\* s LIKE '%' || pat || '%', where "_" in pat matches any one character
LikeContains(s, pat) ==
    \E i \in 0..(Len(s) - Len(pat)) :
        \A j \in 1..Len(pat) : pat[j] = "_" \/ s[i + j] = pat[j]

\* list.sort / ORDER BY on integer keys, ascending and stable: key[i] is the
\* key of seq[i]
StableSort(seq, key) ==
    LET n == Len(seq)
        rank == Evaluated([i \in 1..n |->
                    Cardinality({j \in 1..n : key[j] < key[i]})
                    + Cardinality({j \in 1..i : key[j] = key[i]})])
    IN [r \in 1..n |-> seq[CHOOSE i \in 1..n : rank[i] = r]]

\* ORDER BY price ASC: PostgreSQL puts NULL after every value
PriceOrderKey(row) == IF row.price = NullPrice THEN 1000000 ELSE row.price

OrderByPrice(rows) ==
    StableSort(rows, Evaluated([i \in 1..Len(rows) |->
                                   PriceOrderKey(rows[i])]))

\* price BETWEEN lo AND hi, NULL is never between
PriceBetween(row, lo, hi) ==
    row.price # NullPrice /\ lo <= row.price /\ row.price <= hi

\* float(row[7]) if row[7] else 0.0
PriceOf(row) == IF row.price = NullPrice THEN 0 ELSE row.price

OUTFIT_LIMIT == 50
MAKEUP_LIMIT == 30

fetch_outfits_from_db(table, occasion, budget_min, budget_max, db_fails) ==
    IF db_fails
    THEN << >>
    ELSE LET Matches(row) ==
                 /\ (occasion # << >> /\ occasion # W_any)
                        => /\ row.occasion # None
                           /\ LikeContains(Lower(row.occasion), Lower(occasion))
                 /\ (budget_max > 0)
                        => PriceBetween(row, budget_min, budget_max)
             rows == Take(OrderByPrice(SelectSeq(table, Matches)), OUTFIT_LIMIT)
         IN [i \in 1..Len(rows) |->
                [id |-> rows[i].id,
                 category |-> rows[i].category,
                 hex_color |-> rows[i].hex_color,
                 price |-> PriceOf(rows[i]),
                 occasion |-> rows[i].occasion]]

fetch_makeup_from_db(table, undertone, budget_min, budget_max, db_fails) ==
    IF db_fails
    THEN << >>
    ELSE LET Matches(row) ==
                 /\ (undertone # << >>)
                        => \/ row.undertone = None
                           \/ Lower(row.undertone) = Lower(undertone)
                 /\ (budget_max > 0)
                        => PriceBetween(row, budget_min, budget_max)
             rows == Take(OrderByPrice(SelectSeq(table, Matches)), MAKEUP_LIMIT)
         IN [i \in 1..Len(rows) |->
                [id |-> rows[i].id,
                 hex_color |-> rows[i].hex_color,
                 price |-> PriceOf(rows[i]),
                 undertone |-> rows[i].undertone]]

(***************************************************************************)
(* get_recommendations                                                     *)
(***************************************************************************)
TOP_OUTFITS == 15
TOP_MAKEUP == 10

\* a colour weight of 0.50, as in the makeup profile
OutfitTotalScore_HalfColor(color_score, occasion_score, price_score, contrast_score) ==
    50 * color_score + 15 * occasion_score
    + 15 * price_score + 15 * contrast_score

\* 0.55 * color + 0.15 * occasion + 0.15 * price + 0.15 * contrast,
\* in units of 1/(100 * SCALE)
OutfitTotalScore(color_score, occasion_score, price_score, contrast_score) ==
    55 * color_score + 15 * occasion_score
    + 15 * price_score + 15 * contrast_score

\* 0.50 * color + 0.25 * undertone + 0.25 * price
MakeupTotalScore(color_score, undertone_score, price_score) ==
    50 * color_score + 25 * undertone_score + 25 * price_score

\* the "algorithm" field of the response, the weights in percent
AlgorithmField ==
    [outfit_weights |->
         [color |-> 55, occasion |-> 15, price |-> 15, contrast |-> 15],
     makeup_weights |-> [color |-> 50, undertone |-> 25, price |-> 25]]

\* the body of the loop over outfits
ScoreOutfit(outfit, palette, req) ==
    LET match == get_best_color_match(outfit.hex_color, palette)
        occasion_score == calculate_occasion_score(outfit, req.occasion)
        price_score == calculate_price_score(outfit.price, req.budget_min,
                                             req.budget_max)
        contrast_score == calculate_contrast_score(outfit, req.contrast)
    IN IF occasion_score.exc # "" THEN Raise(occasion_score.exc)
       ELSE IF price_score.exc # "" THEN Raise(price_score.exc)
       ELSE IF contrast_score.exc # "" THEN Raise(contrast_score.exc)
       ELSE Ok([id |-> outfit.id,
                category |-> outfit.category,
                hex_color |-> outfit.hex_color,
                price |-> outfit.price,
                occasion |-> outfit.occasion,
                color_score |-> match.score,
                occasion_score |-> occasion_score.value,
                price_score |-> price_score.value,
                contrast_score |-> contrast_score.value,
                total_score |-> OutfitTotalScore(match.score,
                                                 occasion_score.value,
                                                 price_score.value,
                                                 contrast_score.value),
                matched_color |-> match.name])

\* 1.0 if (product.get("undertone", "").lower() == undertone.lower()
\*         or not product.get("undertone")) else 0.6
UndertoneScore(product, undertone) ==
    LET raw == FieldOr(product, "undertone", << >>)
    IN IF raw = None
       THEN Raise("AttributeError")          \* None.lower() comes first
       ELSE IF Lower(raw) = Lower(undertone) \/ Falsy(raw)
       THEN Ok(SCALE)
       ELSE Ok(Pct(60))

\* the body of the loop over makeup
ScoreMakeup(product, palette, req) ==
    LET match == get_best_color_match(product.hex_color, palette)
        price_score == calculate_price_score(product.price, req.budget_min,
                                             req.budget_max)
        undertone_score == UndertoneScore(product, req.undertone)
    IN IF price_score.exc # "" THEN Raise(price_score.exc)
       ELSE IF undertone_score.exc # "" THEN Raise(undertone_score.exc)
       ELSE Ok([id |-> product.id,
                hex_color |-> product.hex_color,
                price |-> product.price,
                undertone |-> product.undertone,
                color_score |-> match.score,
                undertone_score |-> undertone_score.value,
                price_score |-> price_score.value,
                total_score |-> MakeupTotalScore(match.score,
                                                 undertone_score.value,
                                                 price_score.value),
                matched_color |-> match.name])

\* a loop that reads results[0] of an empty list
FirstExc_IndexesEmpty(results) ==
    IF results = << >>
    THEN "IndexError"
    ELSE IF \E i \in 1..Len(results) : results[i].exc # ""
    THEN "Exception"
    ELSE ""

\* the first exception a loop raises, "" when it raises none
FirstExc(results) ==
    IF \E i \in 1..Len(results) : results[i].exc # ""
    THEN results[CHOOSE i \in 1..Len(results) :
                     /\ results[i].exc # ""
                     /\ \A j \in 1..(i - 1) : results[j].exc = ""].exc
    ELSE ""

\* the sort without reverse=True
SortByTotalScore_Ascending(scored) ==
    StableSort(scored, Evaluated([i \in 1..Len(scored) |->
                                     scored[i].total_score]))

\* sorted ascending and then reversed: equal scores come out back to front
SortByTotalScore_Reversed(scored) ==
    LET ascending == SortByTotalScore_Ascending(scored)
    IN [r \in 1..Len(scored) |-> ascending[Len(scored) + 1 - r]]

\* list.sort(key=lambda x: x["total_score"], reverse=True): stable
SortByTotalScore(scored) ==
    StableSort(scored, Evaluated([i \in 1..Len(scored) |->
                                     0 - scored[i].total_score]))

HttpError(detail) == [status |-> 500, detail |-> detail]

\* scoring that writes the scores into the candidate itself
\* (outfit["total_score"] = ...) instead of building a new record
CandidateAfterScoring_Annotated(candidate, result) ==
    IF result.exc = "" THEN result.value ELSE candidate

\* a candidate dict after its turn in a scoring loop: the loop only reads
\* it (.get) and appends a new dict {**candidate, ...scores} to the scored
\* list, so the candidate itself is as before
CandidateAfterScoring(candidate, result) == candidate

\* the lists the fetch step returned, as they are when the handler ends:
\* the dicts after the scoring loops (a loop stops at its first exception,
\* the makeup loop does not start when the outfit loop raised), in the
\* order of the lists, which the sorts of the scored lists leave alone
CandidatesAfter(req, fetched_outfits, fetched_makeup) ==
    IF req.palette_data.missing
    THEN [outfits |-> fetched_outfits, makeup |-> fetched_makeup]
    ELSE LET palette == req.palette_data.colors
             outfit_results ==
                 Evaluated([i \in 1..Len(fetched_outfits) |->
                               ScoreOutfit(fetched_outfits[i], palette, req)])
             makeup_results ==
                 Evaluated([i \in 1..Len(fetched_makeup) |->
                               ScoreMakeup(fetched_makeup[i], palette, req)])
             Reached(results, i) ==
                 \A j \in 1..(i - 1) : results[j].exc = ""
         IN [outfits |->
                 Evaluated([i \in 1..Len(fetched_outfits) |->
                     IF Reached(outfit_results, i)
                     THEN CandidateAfterScoring(fetched_outfits[i],
                                                outfit_results[i])
                     ELSE fetched_outfits[i]]),
             makeup |->
                 Evaluated([i \in 1..Len(fetched_makeup) |->
                     IF FirstExc(outfit_results) = ""
                        /\ Reached(makeup_results, i)
                     THEN CandidateAfterScoring(fetched_makeup[i],
                                                makeup_results[i])
                     ELSE fetched_makeup[i]])]

\* the handler's result for the candidates the fetch step returned
Recommend(req, fetched_outfits, fetched_makeup) ==
    IF req.palette_data.missing
    THEN HttpError("Could not retrieve color palette")
    ELSE LET palette == req.palette_data.colors
             outfit_results ==
                 Evaluated([i \in 1..Len(fetched_outfits) |->
                               ScoreOutfit(fetched_outfits[i], palette, req)])
             makeup_results ==
                 Evaluated([i \in 1..Len(fetched_makeup) |->
                               ScoreMakeup(fetched_makeup[i], palette, req)])
         IN IF FirstExc(outfit_results) # ""
            THEN HttpError(FirstExc(outfit_results))
            ELSE IF FirstExc(makeup_results) # ""
            THEN HttpError(FirstExc(makeup_results))
            ELSE LET scored_outfits ==
                         SortByTotalScore(
                             Evaluated([i \in 1..Len(outfit_results) |->
                                           outfit_results[i].value]))
                     scored_makeup ==
                         SortByTotalScore(
                             Evaluated([i \in 1..Len(makeup_results) |->
                                           makeup_results[i].value]))
                 IN [status |-> 200,
                     undertone |-> req.undertone,
                     contrast |-> req.contrast,
                     occasion |-> req.occasion,
                     palette |-> palette,
                     recommended_outfits |-> Take(scored_outfits, TOP_OUTFITS),
                     recommended_makeup |-> Take(scored_makeup, TOP_MAKEUP),
                     algorithm |-> AlgorithmField,
                     total_candidates |->
                         [outfits |-> Len(fetched_outfits),
                          makeup |-> Len(fetched_makeup)]]

(***************************************************************************)
(* The values the model draws rows and requests from.                      *)
(***************************************************************************)
H_black == << "#","0","0","0","0","0","0" >>
H_white == << "#","F","F","F","F","F","F" >>
H_white3 == << "#","F","F","F" >>
H_ink == << "#","0","a","0","A","0","a" >>
S_Casual == << "C","a","s","u","a","l" >>
S_tops == << "t","o","p","s" >>
S_Warm == << "W","a","r","m" >>
S_warm == << "w","a","r","m" >>
S_cool == << "c","o","o","l" >>

OutfitColors == {None, H_black, W_dark}
OutfitPrices == {NullPrice, 20, 30, 40}
OutfitOccasions == {None, S_Casual, W_formal}
OutfitCategories == {S_tops}

MakeupColors == {None, H_black}
MakeupPrices == {20}
MakeupUndertones == {None, S_Warm, S_cool}

\* the product a bulk import repeats
ImportedOutfit ==
    [hex_color |-> H_white3, price |-> 20, occasion |-> S_Casual,
     category |-> S_tops]

RequestOccasions == {W_casual, W_any}
RequestBudgets == {<<0, 0>>, <<10, 30>>}
RequestUndertones == {S_warm}
RequestContrasts == {"medium"}

\* what get_palette_from_service returned: None, or the service's JSON
PaletteData ==
    { [missing |-> TRUE, colors |-> << >>],
      [missing |-> FALSE, colors |-> << >>],
      [missing |-> FALSE,
       colors |-> << [hex |-> H_white, name |-> "White"],
                     [hex |-> << >>, name |-> "Unnamed"],
                     [hex |-> H_ink, name |-> "Ink"] >>] }

NoRequest == [occasion |-> << >>, undertone |-> << >>, contrast |-> "",
              budget_min |-> 0, budget_max |-> 0,
              palette_data |-> [missing |-> TRUE, colors |-> << >>],
              db_fails |-> FALSE]
NoResponse == [status |-> 0]
NoCall == [fn |-> ""]
NoCandidates == [outfits |-> << >>, makeup |-> << >>]
NotLoaded == [module |-> "", tones |-> << >>]
\* EnhancedColorRecommendationService() has not been constructed
NotConstructed == [constructed |-> FALSE, data |-> << >>]

UsedIds(table) == {table[i].id : i \in 1..Len(table)}

(***************************************************************************)
(* The ranker as a state machine: the catalogue is filled, requests are    *)
(* answered.                                                               *)
(***************************************************************************)
Init ==
    /\ outfits_table = << >>
    /\ makeup_table = << >>
    /\ request = NoRequest
    /\ outfits = << >>
    /\ makeup = << >>
    /\ response = NoResponse
    /\ call = NoCall
    /\ candidates = NoCandidates
    /\ MONK_SKIN_TONES = NotLoaded
    /\ mst_palette_data = NotConstructed
    /\ cached_data = << >>

\* a row is added to perfect_unified_outfits
InsertOutfit ==
    /\ response = NoResponse
    /\ Len(outfits_table) + Len(makeup_table) < MaxRows
    /\ \E id \in (1..MaxRows) \ UsedIds(outfits_table),
          hex_color \in OutfitColors, price \in OutfitPrices,
          occasion \in OutfitOccasions, category \in OutfitCategories :
          outfits_table' = Append(outfits_table,
                                  [id |-> id, hex_color |-> hex_color,
                                   price |-> price, occasion |-> occasion,
                                   category |-> category])
    /\ UNCHANGED <<makeup_table, request, outfits, makeup, response, call,
                   candidates, MONK_SKIN_TONES,
                   mst_palette_data, cached_data>>

\* a row is added to perfect_unified_makeup
InsertMakeup ==
    /\ response = NoResponse
    /\ Len(outfits_table) + Len(makeup_table) < MaxRows
    /\ \E id \in (1..MaxRows) \ UsedIds(makeup_table),
          hex_color \in MakeupColors, price \in MakeupPrices,
          undertone \in MakeupUndertones :
          makeup_table' = Append(makeup_table,
                                 [id |-> id, hex_color |-> hex_color,
                                  price |-> price, undertone |-> undertone])
    /\ UNCHANGED <<outfits_table, request, outfits, makeup, response, call,
                   candidates, MONK_SKIN_TONES,
                   mst_palette_data, cached_data>>

\* n rows of one product are added to perfect_unified_outfits at once
ImportOutfits ==
    /\ response = NoResponse
    /\ Len(outfits_table) + Len(makeup_table) < MaxRows
    /\ \A i \in 1..Len(outfits_table) : outfits_table[i].id <= MaxRows
    /\ outfits_table' =
           outfits_table \o
           [k \in 1..MaxImport |-> [id |-> MaxRows + k] @@ ImportedOutfit]
    /\ UNCHANGED <<makeup_table, request, outfits, makeup, response, call,
                   candidates, MONK_SKIN_TONES,
                   mst_palette_data, cached_data>>

\* POST /get_recommendations
GetRecommendations ==
    /\ response = NoResponse
    /\ \E occasion \in RequestOccasions, budget \in RequestBudgets,
          undertone \in RequestUndertones, contrast \in RequestContrasts,
          palette_data \in PaletteData, db_fails \in BOOLEAN :
          LET req == [occasion |-> occasion, undertone |-> undertone,
                      contrast |-> contrast,
                      budget_min |-> budget[1], budget_max |-> budget[2],
                      palette_data |-> palette_data, db_fails |-> db_fails]
              fetched_outfits ==
                  fetch_outfits_from_db(outfits_table, occasion,
                                        budget[1], budget[2], db_fails)
              fetched_makeup ==
                  fetch_makeup_from_db(makeup_table, undertone,
                                       budget[1], budget[2], db_fails)
          IN /\ request' = req
             /\ outfits' = IF palette_data.missing THEN << >>
                           ELSE fetched_outfits
             /\ makeup' = IF palette_data.missing THEN << >>
                          ELSE fetched_makeup
             /\ response' = Recommend(req, outfits', makeup')
             /\ candidates' = CandidatesAfter(req, outfits', makeup')
    /\ UNCHANGED <<outfits_table, makeup_table, call, MONK_SKIN_TONES,
                   mst_palette_data, cached_data>>

Next ==
    \/ InsertOutfit
    \/ InsertMakeup
    \/ ImportOutfits
    \/ GetRecommendations

Spec == Init /\ [][Next]_vars

(***************************************************************************)
(* The scoring functions called directly, on arguments of any kind.        *)
(***************************************************************************)
H_grey == << "#","8","0","8","0","8","0" >>
H_red == << "#","f","f","0","0","0","0" >>
H_cyan == << "#","0","0","F","F","F","F" >>
H_short == << "#","1","2","3","4","5" >>
H_nothex == << "#","G","G","G","G","G","G" >>
S_gala == << "g","a","l","a" >>

ProbeColors ==
    {None, << >>, W_dark, H_short, H_nothex,
     H_black, H_white, H_white3, H_ink, H_grey, H_red, H_cyan}

ProbePaletteColors ==
    { [hex |-> H_white, name |-> "White"],
      [hex |-> H_black, name |-> "Black"],
      [hex |-> H_red, name |-> "Red"],
      [hex |-> H_grey, name |-> "Grey"],
      [hex |-> << >>, name |-> "Unnamed"] }

ProbePalettes ==
    {<< >>} \cup {<<c>> : c \in ProbePaletteColors}
            \cup {<<c, d>> : c \in ProbePaletteColors, d \in ProbePaletteColors}

\* the record handed to calculate_occasion_score: with an occasion tag,
\* with None for it, or without the key
ProbeProducts ==
    {[id |-> 1]}
    \cup {[id |-> 1, occasion |-> o] :
             o \in {None, << >>, S_gala, S_Casual, W_formal, W_business,
                    W_professional, W_casual, W_party, W_festive, W_everyday,
                    W_weekend, W_celebration, W_elegant, W_black_tie}}

ProbeOccasions ==
    {W_work, W_casual, W_festive_wedding, W_formal_black_tie, W_any, S_Casual}

CallPriceScore ==
    /\ call = NoCall
    /\ \E min_budget \in 0..MaxPrice, max_budget \in 0..MaxPrice,
          product_price \in 0..(2 * MaxPrice) :
          /\ min_budget <= max_budget
          /\ call' = [fn |-> "calculate_price_score",
                      product_price |-> product_price,
                      min_budget |-> min_budget,
                      max_budget |-> max_budget,
                      result |-> calculate_price_score(product_price,
                                                       min_budget, max_budget)]
    /\ UNCHANGED <<outfits_table, makeup_table, request, outfits, makeup,
                   response, candidates, MONK_SKIN_TONES,
                   mst_palette_data, cached_data>>

CallColorMatch ==
    /\ call = NoCall
    /\ \E product_color \in ProbeColors, palette_colors \in ProbePalettes :
          call' = [fn |-> "get_best_color_match",
                   product_color |-> product_color,
                   palette_colors |-> palette_colors,
                   result |-> get_best_color_match(product_color,
                                                   palette_colors)]
    /\ UNCHANGED <<outfits_table, makeup_table, request, outfits, makeup,
                   response, candidates, MONK_SKIN_TONES,
                   mst_palette_data, cached_data>>

CallOccasionScore ==
    /\ call = NoCall
    /\ \E product \in ProbeProducts, occasion \in ProbeOccasions :
          call' = [fn |-> "calculate_occasion_score",
                   product |-> product,
                   occasion |-> occasion,
                   result |-> calculate_occasion_score(product, occasion)]
    /\ UNCHANGED <<outfits_table, makeup_table, request, outfits, makeup,
                   response, candidates, MONK_SKIN_TONES,
                   mst_palette_data, cached_data>>

NextScore ==
    \/ CallPriceScore
    \/ CallColorMatch
    \/ CallOccasionScore

SpecScore == Init /\ [][NextScore]_vars

(***************************************************************************)
(* Properties of the ranker.                                               *)
(***************************************************************************)
Answered == response.status # 0
Ranked == response.status = 200

\* the position of the record with this id in a list, 0 when absent
PositionOf(list, id) ==
    IF \E i \in 1..Len(list) : list[i].id = id
    THEN CHOOSE i \in 1..Len(list) : list[i].id = id
    ELSE 0

SortedByTotalScore(list) ==
    \A i \in 1..(Len(list) - 1) :
        list[i].total_score >= list[i + 1].total_score

\* C1: the ranked output is sorted by total score, highest first: every two
\* adjacent records of recommended_outfits, and of recommended_makeup, have
\* total_score[i] >= total_score[i+1].
C1_RankedOutputSorted ==
    Ranked =>
        /\ SortedByTotalScore(response.recommended_outfits)
        /\ SortedByTotalScore(response.recommended_makeup)

\* C1, its case: two outfits were ranked, the fetch had returned the lower
\* scoring one first, and the output has the higher scoring one first.
C1_Witness ==
    /\ Ranked
    /\ Len(response.recommended_outfits) = 2
    /\ response.recommended_outfits[1].total_score
           > response.recommended_outfits[2].total_score
    /\ response.recommended_outfits[1].id = outfits[2].id

\* equal total scores appear by price ascending, then by id ascending
TiesByPriceThenId(list) ==
    \A i \in 1..Len(list), j \in 1..Len(list) :
        (i < j /\ list[i].total_score = list[j].total_score)
            => \/ list[i].price < list[j].price
               \/ /\ list[i].price = list[j].price
                  /\ list[i].id < list[j].id

\* equal total scores appear in the order the fetch returned them, and so by
\* price ascending
TiesInFetchOrder(list, fetched) ==
    \A i \in 1..Len(list), j \in 1..Len(list) :
        (i < j /\ list[i].total_score = list[j].total_score)
            => /\ PositionOf(fetched, list[i].id)
                      < PositionOf(fetched, list[j].id)
               /\ list[i].price <= list[j].price

WeightSum(w) ==
    LET keys == DOMAIN w
        RECURSIVE Sum(_)
        Sum(ks) == IF ks = {} THEN 0
                   ELSE LET k == CHOOSE x \in ks : TRUE
                        IN w[k] + Sum(ks \ {k})
    IN Sum(keys)

\* C3: each profile's weights sum to 1.0 (100 percent), as reported in the
\* response's algorithm field and as applied: every ranked record's
\* total_score is the reported weights applied to its own scores, and a
\* record whose scores are all 1.0 totals 1.0.
C3_WeightsSumToOne ==
    Ranked =>
        LET ow == response.algorithm.outfit_weights
            mw == response.algorithm.makeup_weights
        IN /\ WeightSum(ow) = 100
           /\ WeightSum(mw) = 100
           /\ OutfitTotalScore(SCALE, SCALE, SCALE, SCALE) = 100 * SCALE
           /\ MakeupTotalScore(SCALE, SCALE, SCALE) = 100 * SCALE
           /\ \A i \in 1..Len(response.recommended_outfits) :
                  LET r == response.recommended_outfits[i]
                  IN r.total_score = ow.color * r.color_score
                                     + ow.occasion * r.occasion_score
                                     + ow.price * r.price_score
                                     + ow.contrast * r.contrast_score
           /\ \A i \in 1..Len(response.recommended_makeup) :
                  LET r == response.recommended_makeup[i]
                  IN r.total_score = mw.color * r.color_score
                                     + mw.undertone * r.undertone_score
                                     + mw.price * r.price_score

\* C3, its case: an outfit and a makeup product were ranked, the outfit with
\* a colour score that differs from its other scores.
C3_Witness ==
    /\ Ranked
    /\ Len(response.recommended_outfits) = 1
    /\ Len(response.recommended_makeup) = 1
    /\ response.recommended_outfits[1].color_score > 0
    /\ response.recommended_outfits[1].color_score
           # response.recommended_outfits[1].occasion_score

PriceCall == call.fn = "calculate_price_score"
InBudget(c) == c.min_budget <= c.product_price /\ c.product_price <= c.max_budget
UnderBudget(c) == c.product_price < c.min_budget

\* the score of the price that lies b above the budget of call c
ScoreAbove(c, b) ==
    calculate_price_score(c.max_budget + b, c.min_budget, c.max_budget).value

\* C4 as stated: a price inside the budget scores 1.0, and a price d below
\* the budget scores at least what the price d above the budget scores, for
\* every budget and every d > 0.
C4_UnderBudgetAtLeastOverBudget ==
    PriceCall =>
        /\ InBudget(call) => call.result = Ok(SCALE)
        /\ UnderBudget(call) =>
               /\ call.result.exc = ""
               /\ call.result.value
                      >= ScoreAbove(call, call.min_budget - call.product_price)

\* C4 as amended: a price inside the budget scores 1.0, and a price below
\* the budget by a fraction t of min_budget scores at least what the price
\* above the budget by the same fraction t of max_budget scores (1 - 0.3 t
\* against max(0.1, 1 - t)): the penalty is less steep relative to the
\* budget bound, not per unit of price.
C4_UnderBudgetLessSteepRelatively ==
    PriceCall =>
        /\ InBudget(call) => call.result = Ok(SCALE)
        /\ UnderBudget(call) =>
               /\ call.result.exc = ""
               /\ \A b \in 1..call.max_budget :
                      ((call.min_budget - call.product_price) * call.max_budget
                           = b * call.min_budget)
                          => call.result.value >= ScoreAbove(call, b)

\* C4, its case: an under-budget price of a budget wider than 10/3 of its
\* minimum, scored strictly above the price that exceeds the budget by the
\* same fraction and below the price that exceeds it by the same amount.
C4_Witness ==
    /\ PriceCall
    /\ UnderBudget(call)
    /\ 3 * call.max_budget > 10 * call.min_budget
    /\ \E b \in 1..call.max_budget :
           /\ (call.min_budget - call.product_price) * call.max_budget
                  = b * call.min_budget
           /\ call.result.value > ScoreAbove(call, b)
    /\ call.result.value
           < ScoreAbove(call, call.min_budget - call.product_price)

\* what ScoreOutfit computes for one fetched outfit, apart from the price
OtherScores(o) ==
    [color |-> get_best_color_match(o.hex_color,
                                    request.palette_data.colors).score,
     occasion |-> calculate_occasion_score(o, request.occasion),
     contrast |-> calculate_contrast_score(o, request.contrast)]

OtherScoresComputed(o) ==
    OtherScores(o).occasion.exc = "" /\ OtherScores(o).contrast.exc = ""

PriceScoreComputed(o) ==
    calculate_price_score(o.price, request.budget_min,
                          request.budget_max).exc = ""

PaletteObtained == Answered /\ ~request.palette_data.missing

\* C5 as stated: of two candidates with identical colour, occasion and
\* contrast scores, one priced inside the budget and one above it, the one
\* inside the budget has the strictly higher total_score and comes strictly
\* earlier in the ranked output.
C5_InBudgetRanksAboveOverBudget ==
    PaletteObtained
        => \A i \in 1..Len(outfits), j \in 1..Len(outfits) :
               ( /\ request.budget_min <= outfits[i].price
                 /\ outfits[i].price <= request.budget_max
                 /\ outfits[j].price > request.budget_max
                 /\ \A k \in 1..Len(outfits) : OtherScoresComputed(outfits[k])
                 /\ OtherScores(outfits[i]) = OtherScores(outfits[j]) )
                   => /\ Ranked
                      /\ LET list == response.recommended_outfits
                             a == PositionOf(list, outfits[i].id)
                             b == PositionOf(list, outfits[j].id)
                         IN /\ a > 0
                            /\ b > 0 => /\ a < b
                                        /\ list[a].total_score
                                               > list[b].total_score

ColorCall == call.fn = "get_best_color_match"
ValidHex(h) == hex_to_rgb(h).exc = ""
Rgb(h) == hex_to_rgb(h).value

\* C6: the score of get_best_color_match is 1 minus the normalized RGB
\* distance from the candidate colour to the nearest palette colour, cut off
\* at 0 where that distance exceeds 1 (black against white); it is the
\* maximum of the per-palette-colour scores and always lies in [0, 1].
C6_ColorScoreOfNearest ==
    ColorCall =>
        LET pc == call.product_color
            pal == call.palette_colors
            valid == {i \in 1..Len(pal) : ValidHex(pal[i].hex)}
            PerColour(i) == Max(0, SCALE - ciede2000_distance(pc, pal[i].hex))
        IN /\ call.result.score >= 0
           /\ call.result.score <= SCALE
           /\ (~Falsy(pc) /\ ValidHex(pc) /\ valid # {}) =>
                  LET nearest ==
                          CHOOSE i \in valid : \A j \in valid :
                              SquaredRgbDistance(Rgb(pc), Rgb(pal[i].hex))
                                  <= SquaredRgbDistance(Rgb(pc), Rgb(pal[j].hex))
                  IN /\ call.result.score
                            = Max(0, SCALE - NormalizedDistance(
                                                 Rgb(pc), Rgb(pal[nearest].hex)))
                     /\ \A i \in 1..Len(pal) : call.result.score >= PerColour(i)
                     /\ \E i \in 1..Len(pal) : call.result.score = PerColour(i)

\* C6, its case: black is matched against a palette whose only valid colour
\* is white, at a distance from black above the normalisation constant, and
\* scores 0.
C6_Witness ==
    /\ ColorCall
    /\ call.product_color = H_black
    /\ Len(call.palette_colors) = 2
    /\ ~ValidHex(call.palette_colors[1].hex)
    /\ call.palette_colors[2].hex = H_white
    /\ NormalizedDistance(Rgb(H_black), Rgb(H_white)) > SCALE
    /\ call.result.score = 0

\* the colour of a candidate is missing, or is no hex colour
NoColour(o) == Falsy(o.hex_color) \/ ~ValidHex(o.hex_color)

KeptWithColourScoreZero(list, o) ==
    /\ PositionOf(list, o.id) > 0
    /\ list[PositionOf(list, o.id)].color_score = 0

\* C7 as stated: a candidate whose colour is missing or is not a valid hex
\* colour gets color_score 0 and is still present in the ranking result,
\* for every candidate list.  (Requests that fail in the occasion or price
\* scoring are left aside: they are the subject of C8 and C9.)
C7_NoColourCandidateKept ==
    ( /\ PaletteObtained
      /\ \A i \in 1..Len(outfits) :
             /\ calculate_occasion_score(outfits[i], request.occasion).exc = ""
             /\ PriceScoreComputed(outfits[i])
      /\ \A i \in 1..Len(makeup) :
             /\ UndertoneScore(makeup[i], request.undertone).exc = ""
             /\ PriceScoreComputed(makeup[i]) )
        => /\ \A i \in 1..Len(outfits) :
                  NoColour(outfits[i])
                      => /\ Ranked
                         /\ KeptWithColourScoreZero(
                                response.recommended_outfits, outfits[i])
           /\ \A i \in 1..Len(makeup) :
                  NoColour(makeup[i])
                      => /\ Ranked
                         /\ KeptWithColourScoreZero(
                                response.recommended_makeup, makeup[i])

\* C8 as stated: for every candidate with a non-negative price and every
\* budget with 0 <= budget_min <= budget_max, budget_max = 0 included, the
\* price scoring of every candidate completes with a value and the request
\* raises no error.  (Requests that fail in the occasion, contrast or
\* undertone scoring are left aside.)
C8_PriceScoringNeverFails ==
    ( /\ PaletteObtained
      /\ 0 <= request.budget_min
      /\ request.budget_min <= request.budget_max
      /\ \A i \in 1..Len(outfits) : OtherScoresComputed(outfits[i])
      /\ \A i \in 1..Len(makeup) :
             UndertoneScore(makeup[i], request.undertone).exc = "" )
        => /\ \A i \in 1..Len(outfits) :
                  outfits[i].price >= 0 => PriceScoreComputed(outfits[i])
           /\ \A i \in 1..Len(makeup) :
                  makeup[i].price >= 0 => PriceScoreComputed(makeup[i])
           /\ Ranked

\* the entry of the compatibility table, 0.5 where there is none
TableEntryOrDefault(occasion, tag) ==
    IF /\ \E i \in 1..Len(occasion_weights) : occasion_weights[i][1] = occasion
       /\ tag # None
       /\ \E i \in 1..Len(occasion_weights) :
              /\ occasion_weights[i][1] = occasion
              /\ \E k \in 1..Len(occasion_weights[i][2]) :
                     occasion_weights[i][2][k][1] = Lower(tag)
    THEN LET row == CHOOSE i \in 1..Len(occasion_weights) :
                        occasion_weights[i][1] = occasion
             col == CHOOSE k \in 1..Len(occasion_weights[row][2]) :
                        occasion_weights[row][2][k][1] = Lower(tag)
         IN occasion_weights[row][2][col][2]
    ELSE Pct(50)

\* C9 as stated: calculate_occasion_score returns the table entry for
\* (requested occasion, candidate tag) when both are known and 0.5 when the
\* candidate carries no occasion value or an unknown one, or the requested
\* occasion is not in the table; it never raises.  (Requests that fail in
\* the price or contrast scoring are left aside.)
C9_OccasionScoreTableOrDefault ==
    ( /\ PaletteObtained
      /\ \A i \in 1..Len(outfits) :
             /\ PriceScoreComputed(outfits[i])
             /\ calculate_contrast_score(outfits[i], request.contrast).exc = "" )
     =>
        \A i \in 1..Len(outfits) :
            calculate_occasion_score(outfits[i], request.occasion)
                = Ok(TableEntryOrDefault(request.occasion, outfits[i].occasion))

\* C10: with a palette obtained, an empty candidate list gives an empty
\* ranking result (no outfits, no makeup, total_candidates 0) and no error.
C10_EmptyCandidatesEmptyResult ==
    (PaletteObtained /\ outfits = << >> /\ makeup = << >>)
        => /\ Ranked
           /\ response.recommended_outfits = << >>
           /\ response.recommended_makeup = << >>
           /\ response.total_candidates = [outfits |-> 0, makeup |-> 0]

\* C10, its case: a request was answered with a palette and the fetch
\* returned no candidate although the catalogue holds rows.
C10_Witness ==
    /\ PaletteObtained
    /\ outfits = << >>
    /\ makeup = << >>
    /\ ~request.db_fails
    /\ outfits_table # << >>

(***************************************************************************)
(* C11: the candidates the fetch step returned are left as they were.      *)
(***************************************************************************)
ScoreFields ==
    {"color_score", "occasion_score", "price_score", "contrast_score",
     "undertone_score", "total_score", "matched_color"}

Sum3(rgb) == rgb[1] + rgb[2] + rgb[3]          \* 3 * np.mean(rgb)
Max3(rgb) == Max(rgb[1], Max(rgb[2], rgb[3]))
Min3(rgb) == Min(rgb[1], Min(rgb[2], rgb[3]))

\* round(a / b) for a >= 0, b > 0
RoundDiv(a, b) == (2 * a + b) \div (2 * b)

\* cv2.cvtColor(np.uint8([[[r, g, b]]]), cv2.COLOR_RGB2LAB)[0][0]: the 8-bit
\* CIE L*a*b* of OpenCV, L = L* * 255 / 100, a = a* + 128, b = b* + 128,
\* tabulated for the colours of the model
LabTable ==
    { << <<246, 237, 228>>, <<240, 129, 133>> >>,
      << <<243, 231, 219>>, <<235, 130, 135>> >>,
      << <<247, 234, 208>>, <<238, 128, 142>> >>,
      << <<234, 218, 186>>, <<223, 128, 146>> >>,
      << <<215, 189, 150>>, <<199, 131, 151>> >>,
      << <<160, 126, 86>>, <<141, 136, 155>> >>,
      << <<130, 92, 67>>, <<108, 140, 148>> >>,
      << <<96, 65, 52>>, <<78, 140, 141>> >>,
      << <<58, 49, 42>>, <<54, 130, 134>> >>,
      << <<41, 36, 32>>, <<37, 130, 132>> >>,
      << <<60, 40, 30>>, <<46, 136, 138>> >>,
      << <<235, 220, 200>>, <<226, 130, 140>> >>,
      << <<220, 200, 180>>, <<209, 132, 141>> >>,
      << <<240, 225, 210>>, <<231, 131, 137>> >>,
      << <<250, 240, 230>>, <<243, 130, 134>> >>,
      << <<180, 140, 110>>, <<156, 139, 150>> >>,
      << <<140, 100, 80>>, <<117, 141, 146>> >>,
      << <<100, 70, 50>>, <<83, 138, 145>> >>,
      << <<0, 0, 0>>, <<0, 128, 128>> >>,
      << <<255, 255, 255>>, <<255, 128, 128>> >>,
      << <<255, 1, 255>>, <<154, 226, 67>> >>,
      << <<0, 200, 255>>, <<192, 106, 90>> >>,
      << <<0, 0, 255>>, <<82, 207, 20>> >>,
      << <<0, 0, 230>>, <<73, 201, 28>> >>,
      << <<0, 0, 180>>, <<54, 189, 45>> >>,
      << <<0, 60, 60>>, <<56, 111, 123>> >>,
      << <<0, 0, 120>>, <<30, 173, 66>> >>,
      << <<180, 180, 200>>, <<189, 132, 118>> >>,
      << <<170, 200, 200>>, <<200, 118, 125>> >>,
      << <<221, 191, 191>>, <<204, 139, 132>> >>,
      << <<220, 220, 220>>, <<224, 128, 128>> >>,
      << <<90, 60, 0>>, <<71, 136, 165>> >>,
      << <<128, 128, 128>>, <<137, 128, 128>> >>,
      << <<190, 170, 150>>, <<181, 132, 141>> >> }

cv2_RGB2LAB(rgb) == (CHOOSE e \in LabTable : e[1] = rgb)[2]

\* cv2.cvtColor(np.uint8([[rgb]]), cv2.COLOR_RGB2HSV)[0][0]: 8-bit HSV with
\* H in 0..179 (degrees / 2), S and V in 0..255, in OpenCV's fixed point
cv2_RGB2HSV(rgb) ==
    LET r == rgb[1]
        g == rgb[2]
        b == rgb[3]
        v == Max3(rgb)
        diff == v - Min3(rgb)
        sdiv == IF v = 0 THEN 0 ELSE RoundDiv(255 * 4096, v)
        hdiv == IF diff = 0 THEN 0 ELSE RoundDiv(30 * 4096, diff)
        hraw == IF v = r THEN g - b
                ELSE IF v = g THEN b - r + 2 * diff
                ELSE r - g + 4 * diff
        h == (hraw * hdiv + 2048) \div 4096
    IN << IF h < 0 THEN h + 180 ELSE h, (diff * sdiv + 2048) \div 4096, v >>

\* "Monk n" as the analyzers spell a category
S_Monk == << "M","o","n","k" >>
DecimalDigits == << "0","1","2","3","4","5","6","7","8","9" >>
Decimal(n) ==
    IF n < 10 THEN << DecimalDigits[n + 1] >>
    ELSE << DecimalDigits[(n \div 10) + 1], DecimalDigits[(n % 10) + 1] >>
MonkName(n) == S_Monk \o << " " >> \o Decimal(n)

\* a (category, confidence) pair
Pair(category, confidence) ==
    [category |-> category, confidence |-> confidence]

\* tan(deg) * 10^6 for the breakpoints the analyzers compare the ITA with
TanMicro(deg) ==
    CASE deg = 5 -> 87489
      [] deg = 10 -> 176327
      [] deg = 15 -> 267949
      [] deg = 20 -> 363970
      [] deg = 25 -> 466308
      [] deg = 28 -> 531709
      [] deg = 30 -> 577350
      [] deg = 35 -> 700208
      [] deg = 41 -> 869287
      [] deg = 50 -> 1191754
      [] deg = 55 -> 1428148
      [] deg = 0 - 20 -> 0 - 363970
      [] deg = 0 - 30 -> 0 - 577350

\* ita > deg, for ita = np.arctan((L - 50) / b_val) * 180 / np.pi when the
\* guard on b_val lets the division happen, else 90 if L > 50 else -90
ItaAbove(L, b_val, deg) ==
    IF b_val >= 1
    THEN (L - 50) * 1000000 > TanMicro(deg) * b_val
    ELSE (IF L > 50 THEN 90 ELSE 0 - 90) > deg

(***************************************************************************)
(* EnhancedSkinToneAnalyzer                                                *)
(***************************************************************************)
\* brightness_prefilter: rgb_brightness is kept times 3, weighted_brightness
\* times 1000, saturation in 1/100 percent (rounded down)
brightness_prefilter(rgb_color) ==
    LET r == rgb_color[1]
        g == rgb_color[2]
        b == rgb_color[3]
        rgb_brightness == Sum3(rgb_color)
        weighted_brightness == 299 * r + 587 * g + 114 * b
        max_brightness == Max3(rgb_color)
        min_brightness == Min3(rgb_color)
        v_brightness == max_brightness
        saturation == IF max_brightness = 0 THEN 0
                      ELSE ((max_brightness - min_brightness) * 10000)
                               \div max_brightness
        L_brightness == cv2_RGB2LAB(rgb_color)[1]
    IN [is_ultra_fair |->
            /\ rgb_brightness > 3 * 200
            /\ weighted_brightness > 195000
            /\ L_brightness > 75
            /\ v_brightness > 190
            /\ max_brightness > 220,
        is_very_fair |->
            /\ rgb_brightness > 3 * 180
            /\ weighted_brightness > 175000
            /\ L_brightness > 70
            /\ v_brightness > 170
            /\ max_brightness - min_brightness < 60,
        is_fair |->
            /\ rgb_brightness > 3 * 160
            /\ weighted_brightness > 155000
            /\ L_brightness > 65
            /\ saturation < 3000,
        rgb_brightness |-> rgb_brightness,
        weighted_brightness |-> weighted_brightness,
        L_brightness |-> L_brightness,
        saturation |-> saturation,
        contrast |-> max_brightness - min_brightness]

\* a fair-skin layer in which no band fires
perfect_fair_skin_classification_NoBand(brightness_info) == Pair(None, 0)

\* perfect_fair_skin_classification: (None, 0.0) when no band fires
perfect_fair_skin_classification(brightness_info) ==
    IF brightness_info.is_ultra_fair
    THEN IF brightness_info.L_brightness > 80
            \/ brightness_info.rgb_brightness > 3 * 220
         THEN Pair(MonkName(1), 99)
         ELSE Pair(MonkName(2), 98)
    ELSE IF brightness_info.is_very_fair
    THEN IF brightness_info.saturation < 1500
            /\ brightness_info.L_brightness > 78
         THEN Pair(MonkName(1), 97)
         ELSE IF brightness_info.contrast < 40
                 /\ brightness_info.weighted_brightness > 185000
         THEN Pair(MonkName(2), 95)
         ELSE Pair(MonkName(2), 93)
    ELSE IF brightness_info.is_fair
    THEN IF brightness_info.L_brightness > 75
         THEN Pair(MonkName(1), 90)
         ELSE IF brightness_info.L_brightness > 70
         THEN Pair(MonkName(2), 88)
         ELSE Pair(MonkName(3), 85)
    ELSE Pair(None, 0)

\* what a caller gets from a function that ends without a return: None in
\* the place of the tuple
NoTuple == [value |-> None]

\* the ITA bands of the enhanced analyzer, after the fair-skin layer; the
\* two brightness blocks have no else and fall out of the chain to the end
\* of the function, which then returns None
Enhanced_ita_bands(avg_brightness3, L, b_val) ==
    IF avg_brightness3 > 3 * 170
    THEN IF L > 68 \/ ItaAbove(L, b_val, 30) THEN Pair(MonkName(2), 85)
         ELSE IF L > 65 \/ ItaAbove(L, b_val, 15) THEN Pair(MonkName(3), 80)
         ELSE NoTuple
    ELSE IF avg_brightness3 > 3 * 150
    THEN IF L > 70 \/ ItaAbove(L, b_val, 25) THEN Pair(MonkName(3), 80)
         ELSE IF L > 65 \/ ItaAbove(L, b_val, 10) THEN Pair(MonkName(4), 75)
         ELSE NoTuple
    ELSE IF ItaAbove(L, b_val, 50) THEN Pair(MonkName(1), 90)
    ELSE IF ItaAbove(L, b_val, 35) THEN Pair(MonkName(2), 85)
    ELSE IF ItaAbove(L, b_val, 20) THEN Pair(MonkName(3), 80)
    ELSE IF ItaAbove(L, b_val, 5) THEN Pair(MonkName(4), 75)
    ELSE IF ItaAbove(L, b_val, 0 - 20)
    THEN IF L > 65 THEN Pair(MonkName(5), 70)
         ELSE IF L > 55 THEN Pair(MonkName(6), 70)
         ELSE Pair(MonkName(7), 70)
    ELSE IF L > 45 THEN Pair(MonkName(8), 65)
         ELSE IF L > 35 THEN Pair(MonkName(9), 65)
         ELSE Pair(MonkName(10), 65)

\* a classifier without the except clause: an array that does not unpack
\* leaves the function without a result
Enhanced_advanced_skin_tone_classification_NoDefault(rgb_color) ==
    IF Len(rgb_color) # 3
    THEN NoTuple
    ELSE LET fair == perfect_fair_skin_classification(
                         brightness_prefilter(rgb_color))
             lab == cv2_RGB2LAB(rgb_color)
         IN IF fair.category # None
            THEN fair
            ELSE Enhanced_ita_bands(Sum3(rgb_color), lab[1], lab[3])

\* a classifier without the fair-skin layer: the ITA bands always decide
Enhanced_advanced_skin_tone_classification_ItaOnly(rgb_color) ==
    IF Len(rgb_color) # 3
    THEN Pair(MonkName(2), 50)
    ELSE LET lab == cv2_RGB2LAB(rgb_color)
         IN Enhanced_ita_bands(Sum3(rgb_color), lab[1], lab[3])

\* EnhancedSkinToneAnalyzer.advanced_skin_tone_classification; an array that
\* does not unpack into r, g, b raises inside the try and gives the default
Enhanced_advanced_skin_tone_classification(rgb_color) ==
    IF Len(rgb_color) # 3
    THEN Pair(MonkName(2), 50)
    ELSE LET brightness_info == brightness_prefilter(rgb_color)
             fair == perfect_fair_skin_classification(brightness_info)
             lab == cv2_RGB2LAB(rgb_color)
         IN IF fair.category # None
            THEN fair
            ELSE Enhanced_ita_bands(Sum3(rgb_color), lab[1], lab[3])

\* s[a:b] of a Python string
Slice(s, a, b) == SubSeq(s, a + 1, Min(b, Len(s)))

\* int(s, 16) for a slice of at most two characters (a sign, blanks or an
\* underscore, which int() also reads, do not occur in the model)
IntHex(s) ==
    IF s = << >> \/ \E i \in 1..Len(s) : ~IsHexDigit(s[i])
    THEN Raise("ValueError")
    ELSE IF Len(s) = 1 THEN Ok(HexVal(s[1]))
    ELSE Ok(16 * HexVal(s[1]) + HexVal(s[2]))

\* np.array([int(hex_color[1:3], 16), int(hex_color[3:5], 16),
\*           int(hex_color[5:7], 16)])
MonkRgb(hex_color) ==
    LET r == IntHex(Slice(hex_color, 1, 3))
        g == IntHex(Slice(hex_color, 3, 5))
        b == IntHex(Slice(hex_color, 5, 7))
    IN IF r.exc # "" \/ g.exc # "" \/ b.exc # ""
       THEN Raise("ValueError")
       ELSE Ok(<< r.value, g.value, b.value >>)

\* float('inf')
INF == 2000000000
\* distances are kept in units of 1/(9 * SCALE)
DIST == 9 * SCALE

\* a (category, distance) pair
Match(category, distance) == [category |-> category, distance |-> distance]

\* min_distance * 0.8
Times08(d) == IF d = INF THEN INF ELSE (4 * d) \div 5

\* np.sum((lab_color - monk_lab) ** 2) on uint8 arrays: the difference and
\* the square each wrap modulo 256, the sum does not
Uint8SquaredDistance(c1, c2) ==
    LET sq(i) == LET d == (c1[i] - c2[i] + 256) % 256 IN (d * d) % 256
    IN sq(1) + sq(2) + sq(3)

\* abs(hsv_color[0] - monk_hsv[0]) on uint8 scalars: wraps modulo 256
Uint8AbsDiff(a, b) == (a - b + 256) % 256

\* min(abs(hsv_color[0] - monk_hsv[0]), 180 - abs(hsv_color[0] -
\* monk_hsv[0])) of the enhanced analyzer: the uint8 difference wraps,
\* 180 minus it is a signed integer
Enhanced_hue_diff(h1, h2) ==
    Min(Uint8AbsDiff(h1, h2), 180 - Uint8AbsDiff(h1, h2))

\* the same of the improved analyzer, which subtracts from 360
Improved_hue_diff(h1, h2) ==
    Min(Uint8AbsDiff(h1, h2), 360 - Uint8AbsDiff(h1, h2))

\* w1 * rgb_distance + w2 * lab_distance + w3 * hue_distance
\* + w4 * k * brightness_diff, the weights w in 1/100, k in 1/10, the
\* distances rounded up to 1/100, brightness_diff3 = 3 * brightness_diff
WeightedDistance(rgb_d, w1, lab_d, w2, hue_diff, w3, brightness_diff3, k, w4) ==
    rgb_d * w1 * 9 + lab_d * w2 * 9 + hue_diff * w3 * 500
    + brightness_diff3 * k * w4 * 30

Abs(x) == IF x < 0 THEN 0 - x ELSE x

\* the weights of the four terms of combined_distance for an estimate of
\* brightness avg_brightness3 / 3, in 1/100; the standard tier has no
\* brightness term
Weights(w1, w2, w3, w4) == [w1 |-> w1, w2 |-> w2, w3 |-> w3, w4 |-> w4]

\* weights that fall back to the moderately fair ones for the fairest skin
Enhanced_weights_Dimmed(avg_brightness3) ==
    IF avg_brightness3 > 3 * 220 THEN Weights(25, 25, 10, 40)
    ELSE IF avg_brightness3 > 3 * 200 THEN Weights(15, 15, 5, 65)
    ELSE IF avg_brightness3 > 3 * 180 THEN Weights(25, 25, 10, 40)
    ELSE Weights(40, 40, 20, 0)

Enhanced_weights(avg_brightness3) ==
    IF avg_brightness3 > 3 * 220 THEN Weights(10, 10, 5, 75)
    ELSE IF avg_brightness3 > 3 * 200 THEN Weights(15, 15, 5, 65)
    ELSE IF avg_brightness3 > 3 * 180 THEN Weights(25, 25, 10, 40)
    ELSE Weights(40, 40, 20, 0)

\* brightness_penalty / brightness_diff in 1/10, by the tier of the
\* estimate and the brightness of the reference tone
Enhanced_penalty_factor(avg_brightness3, monk_brightness3) ==
    IF avg_brightness3 > 3 * 220
    THEN IF monk_brightness3 < 3 * 180 THEN 50
         ELSE IF monk_brightness3 < 3 * 200 THEN 20
         ELSE 2
    ELSE IF avg_brightness3 > 3 * 200
    THEN IF monk_brightness3 < 3 * 170 THEN 35
         ELSE IF monk_brightness3 < 3 * 190 THEN 18
         ELSE 4
    ELSE IF avg_brightness3 > 3 * 180
    THEN IF monk_brightness3 < 3 * 150 THEN 20 ELSE 8
    ELSE 0

\* the body of the loop of find_closest_monk_tone_advanced (enhanced)
Enhanced_combined_distance(rgb_color, lab_color, hsv_color, monk_rgb) ==
    LET monk_lab == cv2_RGB2LAB(monk_rgb)
        monk_hsv == cv2_RGB2HSV(monk_rgb)
        rgb_distance == CeilSqrt100(SquaredRgbDistance(rgb_color, monk_rgb))
        lab_distance == CeilSqrt100(Uint8SquaredDistance(lab_color, monk_lab))
        hue_diff == Enhanced_hue_diff(hsv_color[1], monk_hsv[1])
        avg_brightness == Sum3(rgb_color)
        monk_brightness == Sum3(monk_rgb)
        brightness_diff == Abs(avg_brightness - monk_brightness)
        w == Enhanced_weights(avg_brightness)
    IN WeightedDistance(rgb_distance, w.w1, lab_distance, w.w2,
                        hue_diff, w.w3, brightness_diff,
                        Enhanced_penalty_factor(avg_brightness,
                                                monk_brightness),
                        w.w4)

RECURSIVE Enhanced_closest_from(_, _, _, _, _)
\* the loop over monk_tones.items() from its i-th entry on; a hex code that
\* does not parse raises out of the loop
Enhanced_closest_from(rgb_color, monk_tones, i, min_distance, closest_monk) ==
    IF i > Len(monk_tones)
    THEN Ok(Match(closest_monk, min_distance))
    ELSE LET monk_rgb == MonkRgb(monk_tones[i][2])
         IN IF monk_rgb.exc # ""
            THEN Raise(monk_rgb.exc)
            ELSE LET combined_distance ==
                         Enhanced_combined_distance(
                             rgb_color, cv2_RGB2LAB(rgb_color),
                             cv2_RGB2HSV(rgb_color), monk_rgb.value)
                 IN IF combined_distance < min_distance
                    THEN Enhanced_closest_from(rgb_color, monk_tones, i + 1,
                                               combined_distance,
                                               monk_tones[i][1])
                    ELSE Enhanced_closest_from(rgb_color, monk_tones, i + 1,
                                               min_distance, closest_monk)

LightCategories == {MonkName(1), MonkName(2), MonkName(3)}

\* a matcher without the arbitration: the nearest tone is the answer
Enhanced_arbitrate_DistanceOnly(ita, closest) == closest

\* lines 589-594: the rule result wins when its confidence is above 0.75
\* and it is one of the three lightest categories
Enhanced_arbitrate(ita, closest) ==
    IF ita.confidence > 75 /\ ita.category \in LightCategories
    THEN Match(ita.category, Times08(closest.distance))
    ELSE closest

\* EnhancedSkinToneAnalyzer.find_closest_monk_tone_advanced: unpacking a
\* None rule result, converting an array that is not a colour, or a hex
\* code that does not parse raises inside the try and gives ("Monk 4", 50.0)
Enhanced_find_closest_monk_tone_advanced(rgb_color, monk_tones) ==
    LET ita == Enhanced_advanced_skin_tone_classification(rgb_color)
    IN IF ita = NoTuple \/ Len(rgb_color) # 3
       THEN Match(MonkName(4), 50 * DIST)
       ELSE LET closest == Enhanced_closest_from(rgb_color, monk_tones, 1,
                                                 INF, MonkName(2))
            IN IF closest.exc # ""
               THEN Match(MonkName(4), 50 * DIST)
               ELSE Enhanced_arbitrate(ita, closest.value)

\* the ten Monk reference colours, as the tests pass them
MONK_TONES ==
    << << MonkName(1), << "#","f","6","e","d","e","4" >> >>,
      << MonkName(2), << "#","f","3","e","7","d","b" >> >>,
      << MonkName(3), << "#","f","7","e","a","d","0" >> >>,
      << MonkName(4), << "#","e","a","d","a","b","a" >> >>,
      << MonkName(5), << "#","d","7","b","d","9","6" >> >>,
      << MonkName(6), << "#","a","0","7","e","5","6" >> >>,
      << MonkName(7), << "#","8","2","5","c","4","3" >> >>,
      << MonkName(8), << "#","6","0","4","1","3","4" >> >>,
      << MonkName(9), << "#","3","a","3","1","2","a" >> >>,
      << MonkName(10), << "#","2","9","2","4","2","0" >> >> >>

\* the table main.py falls back to
EmergencyTones ==
    << << MonkName(1), << "#","f","6","e","d","e","4" >> >>,
       << MonkName(5), << "#","d","7","b","d","9","6" >> >>,
       << MonkName(10), << "#","2","9","2","4","2","0" >> >> >>

(***************************************************************************)
(* ImprovedSkinToneAnalyzer                                                *)
(***************************************************************************)
\* ImprovedSkinToneAnalyzer.advanced_skin_tone_classification; an array that
\* does not unpack into r, g, b raises inside the try and gives the default
Improved_advanced_skin_tone_classification(rgb_color) ==
    IF Len(rgb_color) # 3
    THEN Pair(MonkName(4), 50)
    ELSE LET lab == cv2_RGB2LAB(rgb_color)
             L == lab[1]
             b_val == lab[3]
         IN IF ItaAbove(L, b_val, 55) THEN Pair(MonkName(1), 90)
            ELSE IF ItaAbove(L, b_val, 41) THEN Pair(MonkName(2), 85)
            ELSE IF ItaAbove(L, b_val, 28) THEN Pair(MonkName(3), 80)
            ELSE IF ItaAbove(L, b_val, 10) THEN Pair(MonkName(4), 75)
            ELSE IF ItaAbove(L, b_val, 0 - 30)
            THEN IF L > 65 THEN Pair(MonkName(5), 70)
                 ELSE IF L > 55 THEN Pair(MonkName(6), 70)
                 ELSE Pair(MonkName(7), 70)
            ELSE IF L > 45 THEN Pair(MonkName(8), 65)
                 ELSE IF L > 35 THEN Pair(MonkName(9), 65)
                 ELSE Pair(MonkName(10), 65)

\* the weights of the four terms of combined_distance (improved), in 1/100;
\* the brightness term is brightness_diff itself
Improved_weights(avg_brightness3) ==
    IF avg_brightness3 > 3 * 200 THEN Weights(20, 30, 10, 120)
    ELSE IF avg_brightness3 > 3 * 160 THEN Weights(30, 40, 10, 80)
    ELSE Weights(40, 40, 20, 40)

\* the body of the loop of find_closest_monk_tone_advanced (improved)
Improved_combined_distance(rgb_color, lab_color, hsv_color, monk_rgb) ==
    LET monk_lab == cv2_RGB2LAB(monk_rgb)
        monk_hsv == cv2_RGB2HSV(monk_rgb)
        rgb_distance == CeilSqrt100(SquaredRgbDistance(rgb_color, monk_rgb))
        lab_distance == CeilSqrt100(Uint8SquaredDistance(lab_color, monk_lab))
        hue_diff == Improved_hue_diff(hsv_color[1], monk_hsv[1])
        avg_brightness == Sum3(rgb_color)
        brightness_diff == Abs(avg_brightness - Sum3(monk_rgb))
        w == Improved_weights(avg_brightness)
    IN WeightedDistance(rgb_distance, w.w1, lab_distance, w.w2,
                        hue_diff, w.w3, brightness_diff, 10, w.w4)

RECURSIVE Improved_closest_from(_, _, _, _, _)
\* the loop over monk_tones.items() from its i-th entry on
Improved_closest_from(rgb_color, monk_tones, i, min_distance, closest_monk) ==
    IF i > Len(monk_tones)
    THEN Ok(Match(closest_monk, min_distance))
    ELSE LET monk_rgb == MonkRgb(monk_tones[i][2])
         IN IF monk_rgb.exc # ""
            THEN Raise(monk_rgb.exc)
            ELSE LET combined_distance ==
                         Improved_combined_distance(
                             rgb_color, cv2_RGB2LAB(rgb_color),
                             cv2_RGB2HSV(rgb_color), monk_rgb.value)
                 IN IF combined_distance < min_distance
                    THEN Improved_closest_from(rgb_color, monk_tones, i + 1,
                                               combined_distance,
                                               monk_tones[i][1])
                    ELSE Improved_closest_from(rgb_color, monk_tones, i + 1,
                                               min_distance, closest_monk)

\* a matcher that prefers the rule result and leaves the distance unscaled
Improved_arbitrate_Unscaled(ita, closest) ==
    IF ita.confidence > 70 /\ ita.category \in LightCategories
    THEN Match(ita.category, closest.distance)
    ELSE closest

\* lines 696-700: the rule result wins when its confidence is above 0.7 and
\* it is one of the three lightest categories
Improved_arbitrate(ita, closest) ==
    IF ita.confidence > 70 /\ ita.category \in LightCategories
    THEN Match(ita.category, Times08(closest.distance))
    ELSE closest

\* ImprovedSkinToneAnalyzer.find_closest_monk_tone_advanced
Improved_find_closest_monk_tone_advanced(rgb_color, monk_tones) ==
    LET ita == Improved_advanced_skin_tone_classification(rgb_color)
    IN IF Len(rgb_color) # 3
       THEN Match(MonkName(4), 50 * DIST)
       ELSE LET closest == Improved_closest_from(rgb_color, monk_tones, 1,
                                                 INF, MonkName(4))
            IN IF closest.exc # ""
               THEN Match(MonkName(4), 50 * DIST)
               ELSE Improved_arbitrate(ita, closest.value)

(***************************************************************************)
(* find_closest_monk_tone_enhanced of src/backend/prods_fastapi/main.py,   *)
(* which reads the module's MONK_SKIN_TONES.                               *)
(***************************************************************************)
\* euclidean_distance * w1 + brightness_diff * w2
Main_combined_distance(rgb_color, monk_rgb) ==
    LET euclidean_distance ==
            CeilSqrt100(SquaredRgbDistance(rgb_color, monk_rgb))
        avg_brightness == Sum3(rgb_color)
        brightness_diff == Abs(avg_brightness - Sum3(monk_rgb))
    IN IF avg_brightness > 3 * 220
       THEN WeightedDistance(euclidean_distance, 30, 0, 0, 0, 0,
                             brightness_diff, 15, 100)
       ELSE IF avg_brightness > 3 * 180
       THEN WeightedDistance(euclidean_distance, 60, 0, 0, 0, 0,
                             brightness_diff, 10, 100)
       ELSE WeightedDistance(euclidean_distance, 100, 0, 0, 0, 0, 0, 0, 0)

RECURSIVE Main_closest_from(_, _, _, _, _)
\* the loop over MONK_SKIN_TONES.items(); webcolors' hex_to_rgb raises on a
\* code that is not a hex colour, and nothing catches it
Main_closest_from(rgb_color, monk_tones, i, min_distance, closest_monk) ==
    IF i > Len(monk_tones)
    THEN Ok(Match(closest_monk, min_distance))
    ELSE LET monk_rgb == hex_to_rgb(monk_tones[i][2])
         IN IF monk_rgb.exc # ""
            THEN Raise(monk_rgb.exc)
            ELSE LET combined_distance ==
                         Main_combined_distance(rgb_color, monk_rgb.value)
                 IN IF combined_distance < min_distance
                    THEN Main_closest_from(rgb_color, monk_tones, i + 1,
                                           combined_distance, monk_tones[i][1])
                    ELSE Main_closest_from(rgb_color, monk_tones, i + 1,
                                           min_distance, closest_monk)

find_closest_monk_tone_enhanced(rgb_color, monk_tones) ==
    Main_closest_from(rgb_color, monk_tones, 1, INF, MonkName(2))

(***************************************************************************)
(* The tone table a service loads when it is imported.                     *)
(***************************************************************************)
RECURSIVE Replace(_, _, _)
\* str.replace(old, new): every occurrence, left to right, not overlapping
Replace(s, old, new) ==
    IF Len(s) < Len(old) \/ old = << >>
    THEN s
    ELSE IF SubSeq(s, 1, Len(old)) = old
    THEN new \o Replace(SubSeq(s, Len(old) + 1, Len(s)), old, new)
    ELSE << s[1] >> \o Replace(Tail(s), old, new)

EndsWith(s, suffix) ==
    /\ Len(s) >= Len(suffix)
    /\ SubSeq(s, Len(s) - Len(suffix) + 1, Len(s)) = suffix

\* the rows check_database.py puts into skin_tone_mappings
SkinToneMappings ==
    << [monk_tone |-> << "M","o","n","k","0","1" >>, hex_code |-> << "#","f","6","e","d","e","4" >>],
       [monk_tone |-> << "M","o","n","k","0","2" >>, hex_code |-> << "#","f","3","e","7","d","b" >>],
       [monk_tone |-> << "M","o","n","k","0","3" >>, hex_code |-> << "#","f","7","e","a","d","0" >>],
       [monk_tone |-> << "M","o","n","k","0","4" >>, hex_code |-> << "#","e","a","d","a","b","a" >>],
       [monk_tone |-> << "M","o","n","k","0","5" >>, hex_code |-> << "#","d","7","b","d","9","6" >>],
       [monk_tone |-> << "M","o","n","k","0","6" >>, hex_code |-> << "#","a","0","7","e","5","6" >>],
       [monk_tone |-> << "M","o","n","k","0","7" >>, hex_code |-> << "#","8","2","5","c","4","3" >>],
       [monk_tone |-> << "M","o","n","k","0","8" >>, hex_code |-> << "#","6","0","4","1","3","4" >>],
       [monk_tone |-> << "M","o","n","k","0","9" >>, hex_code |-> << "#","3","a","3","1","2","a" >>],
       [monk_tone |-> << "M","o","n","k","1","0" >>, hex_code |-> << "#","2","9","2","4","2","0" >>] >>

\* mapping.monk_tone.replace('Monk0', 'Monk ').replace('Monk', 'Monk '),
\* and 'Monk 10' for a name that ends with '10'
DisplayName(monk_tone) ==
    LET display_name ==
            Replace(Replace(monk_tone, S_Monk \o << "0" >>,
                            S_Monk \o << " " >>),
                    S_Monk, S_Monk \o << " " >>)
    IN IF EndsWith(display_name, << "1","0" >>)
       THEN MonkName(10)
       ELSE display_name

\* main.py get_monk_skin_tones: the rows of the table as they are, or the
\* emergency set when the query raises
get_monk_skin_tones(db) ==
    IF db.fails
    THEN EmergencyTones
    ELSE [i \in 1..Len(db.rows) |->
             << DisplayName(db.rows[i].monk_tone), db.rows[i].hex_code >>]

(***************************************************************************)
(* The classifier called directly, as the tests of the repository do.      *)
(***************************************************************************)
\* the colours of the model: the ten reference colours, the colours of the
\* repository's tests, and colours that reach the other bands
\* ((200,170,140) of test_analyzer_comparison.py is left out: its saturation
\* is exactly 30 percent, where the rounding of colorsys decides the band)
ToneColours ==
    { <<246, 237, 228>>,
      <<243, 231, 219>>,
      <<247, 234, 208>>,
      <<234, 218, 186>>,
      <<215, 189, 150>>,
      <<160, 126, 86>>,
      <<130, 92, 67>>,
      <<96, 65, 52>>,
      <<58, 49, 42>>,
      <<41, 36, 32>>,
      <<60, 40, 30>>,
      <<235, 220, 200>>,
      <<220, 200, 180>>,
      <<240, 225, 210>>,
      <<250, 240, 230>>,
      <<180, 140, 110>>,
      <<140, 100, 80>>,
      <<100, 70, 50>>,
      <<0, 0, 0>>,
      <<255, 255, 255>>,
      <<255, 1, 255>>,
      <<0, 200, 255>>,
      <<0, 0, 255>>,
      <<0, 0, 230>>,
      <<0, 0, 180>>,
      <<0, 60, 60>>,
      <<0, 0, 120>>,
      <<180, 180, 200>>,
      <<170, 200, 200>>,
      <<221, 191, 191>>,
      <<220, 220, 220>>,
      <<90, 60, 0>>,
      <<128, 128, 128>>,
      <<190, 170, 150>> }

\* an array that is not a colour
NotAColour == << 200, 180 >>

MaxDbRows == 10
\* the states of skin_tone_mappings a service can meet when it starts
DbStates ==
    { [fails |-> TRUE, rows |-> << >>] } \cup
    { [fails |-> FALSE, rows |-> SubSeq(SkinToneMappings, 1, n)] :
          n \in {0, 3, Min(MaxDbRows, Len(SkinToneMappings))} }

\* the tables the analyzers are given
MonkToneTables == { MONK_TONES, EmergencyTones, << >> }

Analyzers == {"enhanced", "improved"}

\* main.py is imported: MONK_SKIN_TONES = get_monk_skin_tones()
LoadMonkSkinTones ==
    /\ MONK_SKIN_TONES = NotLoaded
    /\ call = NoCall
    /\ \E db \in DbStates :
          MONK_SKIN_TONES' =
              [module |-> "main", tones |-> get_monk_skin_tones(db)]
    /\ UNCHANGED <<outfits_table, makeup_table, request, outfits, makeup,
                   response, call, candidates,
                   mst_palette_data, cached_data>>

\* analyzer.advanced_skin_tone_classification(rgb_color)
CallSkinToneClassification ==
    /\ call = NoCall
    /\ \E analyzer \in Analyzers, rgb_color \in ToneColours \cup {NotAColour} :
          call' = [fn |-> "advanced_skin_tone_classification",
                   analyzer |-> analyzer,
                   rgb_color |-> rgb_color,
                   result |->
                       IF analyzer = "enhanced"
                       THEN Enhanced_advanced_skin_tone_classification(rgb_color)
                       ELSE Improved_advanced_skin_tone_classification(rgb_color)]
    /\ UNCHANGED <<outfits_table, makeup_table, request, outfits, makeup,
                   response, candidates, MONK_SKIN_TONES,
                   mst_palette_data, cached_data>>

\* analyzer.find_closest_monk_tone_advanced(rgb_color, monk_tones)
CallFindClosestMonkTone ==
    /\ call = NoCall
    /\ \E analyzer \in Analyzers, rgb_color \in ToneColours,
          monk_tones \in MonkToneTables :
          call' = [fn |-> "find_closest_monk_tone_advanced",
                   analyzer |-> analyzer,
                   rgb_color |-> rgb_color,
                   monk_tones |-> monk_tones,
                   result |->
                       IF analyzer = "enhanced"
                       THEN Enhanced_find_closest_monk_tone_advanced(
                                rgb_color, monk_tones)
                       ELSE Improved_find_closest_monk_tone_advanced(
                                rgb_color, monk_tones)]
    /\ UNCHANGED <<outfits_table, makeup_table, request, outfits, makeup,
                   response, candidates, MONK_SKIN_TONES,
                   mst_palette_data, cached_data>>

\* main.find_closest_monk_tone_enhanced(rgb_color), once main.py is imported
CallFindClosestMonkToneEnhanced ==
    /\ call = NoCall
    /\ MONK_SKIN_TONES.module = "main"
    /\ \E rgb_color \in ToneColours :
          call' = [fn |-> "find_closest_monk_tone_enhanced",
                   analyzer |-> "main",
                   rgb_color |-> rgb_color,
                   monk_tones |-> MONK_SKIN_TONES.tones,
                   result |-> find_closest_monk_tone_enhanced(
                                  rgb_color, MONK_SKIN_TONES.tones)]
    /\ UNCHANGED <<outfits_table, makeup_table, request, outfits, makeup,
                   response, candidates, MONK_SKIN_TONES,
                   mst_palette_data, cached_data>>

NextTone ==
    \/ LoadMonkSkinTones
    \/ CallSkinToneClassification
    \/ CallFindClosestMonkTone
    \/ CallFindClosestMonkToneEnhanced

SpecTone == Init /\ [][NextTone]_vars

(***************************************************************************)
(* The confidence scorers.  A confidence is kept in units of 1/SCALE; a    *)
(* face image is its validity (whether OpenCV can convert it) and the      *)
(* variance of its Laplacian, the sharpness.                               *)
(***************************************************************************)
HALF == SCALE \div 2

RECURSIVE SumOver(_, _)
\* sum(f(x) for x in seq), f a function on the elements' indices
SumOver(f, n) == IF n = 0 THEN 0 ELSE f[n] + SumOver(f, n - 1)

\* 10 * sqrt(x), rounded up
CeilSqrt10(x) == CeilSqrtIn(0, 46340, x * 100)

\* max(0, 1 - (np.std([np.mean(color) for color in region_colors]) / 50)):
\* the standard deviation of n means m_i = S_i / 3 is
\* sqrt(n * sum(S_i^2) - sum(S_i)^2) / (3 * n)
Advanced_consistency_score(region_colors) ==
    LET n == Len(region_colors)
        S == [i \in 1..n |-> Sum3(region_colors[i])]
        sq == [i \in 1..n |-> S[i] * S[i]]
        total == SumOver(S, n)
        std10_3n == CeilSqrt10(n * SumOver(sq, n) - total * total)
    IN Max(0, SCALE - (std10_3n * SCALE) \div (10 * 3 * n * 50))

\* min(1.0, sharpness / 500)
sharpness_score(sharpness) == Min(SCALE, (sharpness * SCALE) \div 500)

\* 1.0 for 100 <= brightness <= 220, else max(0, 1 - |brightness - 160| / 100)
brightness_score(final_color) ==
    LET brightness3 == Sum3(final_color)
    IN IF 3 * 100 <= brightness3 /\ brightness3 <= 3 * 220
       THEN SCALE
       ELSE Max(0, SCALE - (Abs(brightness3 - 3 * 160) * SCALE) \div 300)

\* max(0, 1 - max(0, saturation - 0.3) / 0.7), saturation = hsv[1] / 255.0
saturation_score(final_color) ==
    LET s == cv2_RGB2HSV(final_color)[2]
        excess255 == Max(0, s * SCALE - 3000 * 255)
    IN Max(0, SCALE - (excess255 * 10) \div (7 * 255))

\* a scorer that neither caps the sharpness score nor the sum
calculate_advanced_confidence_Uncapped(face_image, final_color, region_colors) ==
    IF ~face_image.valid \/ Len(final_color) # 3
    THEN HALF
    ELSE (((face_image.sharpness * SCALE) \div 500) * 20
          + brightness_score(final_color) * 20
          + saturation_score(final_color) * 15) \div 100 + 1500

\* EnhancedSkinToneAnalyzer.calculate_advanced_confidence; cvtColor raises
\* on an image or a colour it cannot convert, and the except returns 0.5
calculate_advanced_confidence(face_image, final_color, region_colors) ==
    IF ~face_image.valid \/ Len(final_color) # 3
    THEN HALF
    ELSE LET consistency ==
                 IF Len(region_colors) > 1
                 THEN Advanced_consistency_score(region_colors) * 30
                 ELSE 0
         IN Min(SCALE,
                (consistency
                 + sharpness_score(face_image.sharpness) * 20
                 + brightness_score(final_color) * 20
                 + saturation_score(final_color) * 15) \div 100 + 1500)

\* ImprovedSkinToneAnalyzer.validate_skin_color: the share of the four
\* criteria the colour meets, or 0.5 when the colour does not unpack; the
\* hue is OpenCV's 8-bit hue (0..179), so h >= 330 is never true
validate_skin_color(color) ==
    IF Len(color) # 3
    THEN HALF
    ELSE LET hsv == cv2_RGB2HSV(color)
             hue_valid == IF hsv[1] <= 30 \/ hsv[1] >= 330 THEN 1 ELSE 0
             sat_valid == IF 20 <= hsv[2] /\ hsv[2] <= 200 THEN 1 ELSE 0
             brightness_valid == IF 50 <= hsv[3] /\ hsv[3] <= 240 THEN 1 ELSE 0
             ratio_valid == IF color[1] >= color[2]
                              /\ 10 * color[2] >= 8 * color[3]
                            THEN 1 ELSE 0
         IN ((hue_valid + sat_valid + brightness_valid + ratio_valid) * SCALE)
                \div 4

\* max(0, 1 - (np.mean([np.std(color) for color in region_colors]) / 30)):
\* the standard deviation of the three channels of a colour is
\* sqrt(3 * (r^2 + g^2 + b^2) - (r + g + b)^2) / 3
Improved_consistency_score(region_colors) ==
    LET n == Len(region_colors)
        std10_3 == [i \in 1..n |->
                       LET c == region_colors[i]
                       IN CeilSqrt10(3 * (c[1] * c[1] + c[2] * c[2] + c[3] * c[3])
                                     - Sum3(c) * Sum3(c))]
    IN Max(0, SCALE - (SumOver(std10_3, n) * SCALE) \div (10 * 3 * n * 30))

\* max(0, 1 - (color_distance / 150)), the distance in units of 1/DIST
distance_score(color_distance) ==
    IF color_distance = INF
    THEN 0
    ELSE Max(0, SCALE - (color_distance \div 9) \div 150)

\* ImprovedSkinToneAnalyzer.calculate_comprehensive_confidence; cvtColor
\* raises on an image it cannot convert, and the except returns 0.5
calculate_comprehensive_confidence(face_image, final_color, region_colors, clustering_confidence, color_distance, has_landmarks) ==
    IF ~face_image.valid
    THEN HALF
    ELSE LET consistency ==
                 IF Len(region_colors) > 1
                 THEN Improved_consistency_score(region_colors) * 20
                 ELSE 10 * SCALE
             landmark_bonus == IF has_landmarks THEN 1000 ELSE 500
         IN Min(SCALE,
                (clustering_confidence * 25
                 + consistency
                 + sharpness_score(face_image.sharpness) * 20
                 + distance_score(color_distance) * 15
                 + validate_skin_color(final_color) * 10) \div 100
                + landmark_bonus)

(***************************************************************************)
(* The analysis pipelines.  An image is what the steps before the          *)
(* classification make of it: whether a face was found, whether landmarks  *)
(* were, the dominant colour of each skin region, the mean colour of the   *)
(* centre region, and the face image the confidence is computed from.      *)
(***************************************************************************)
RECURSIVE Words(_, _)
\* str.split(): the words of s, cur the word being read
Words(s, cur) ==
    IF s = << >>
    THEN IF cur = << >> THEN << >> ELSE << cur >>
    ELSE IF s[1] = " "
    THEN (IF cur = << >> THEN << >> ELSE << cur >>) \o Words(Tail(s), << >>)
    ELSE Words(Tail(s), cur \o << s[1] >>)

\* str.zfill(2)
Zfill2(s) == IF Len(s) < 2 THEN << "0" >> \o s ELSE s

\* format(n, '02x')
Hex2(n) == << HexDigits[(n \div 16) + 1], HexDigits[(n % 16) + 1] >>

\* '#{:02x}{:02x}{:02x}'.format(int(c[0]), int(c[1]), int(c[2]))
DerivedHex(c) == << "#" >> \o Hex2(c[1]) \o Hex2(c[2]) \o Hex2(c[3])

\* monk_tones[key]: the value of the last pair with that key, or KeyError
Lookup(monk_tones, key) ==
    LET at == { i \in 1..Len(monk_tones) : monk_tones[i][1] = key }
    IN IF at = { }
       THEN Raise("KeyError")
       ELSE Ok(monk_tones[CHOOSE i \in at : \A j \in at : j <= i][2])

\* round(x, 2) of a confidence, in 1/100
Round2(x) ==
    LET q == x \div 100
        r == x % 100
    IN IF r > 50 \/ (r = 50 /\ q % 2 = 1) THEN q + 1 ELSE q

NeutralDefault == << 220, 210, 200 >>

\* np.mean(all_colors, axis=0); the sample lists of the model hold equal
\* colours, so the division is exact
MeanColour(colors) ==
    LET n == Len(colors)
    IN << SumOver([i \in 1..n |-> colors[i][1]], n) \div n,
          SumOver([i \in 1..n |-> colors[i][2]], n) \div n,
          SumOver([i \in 1..n |-> colors[i][3]], n) \div n >>

\* an estimator that classifies nothing as a failure and raises
advanced_color_clustering_Raises(region_colors) ==
    IF region_colors = << >>
    THEN Raise("ValueError")
    ELSE Ok([color |-> MeanColour(region_colors), confidence |-> Pct(40)])

\* ImprovedSkinToneAnalyzer.advanced_color_clustering for fewer than three
\* samples (the K-means branch, lines 341-362, needs three or more and is
\* not in the model)
advanced_color_clustering(region_colors) ==
    IF region_colors = << >>
    THEN Ok([color |-> NeutralDefault, confidence |-> Pct(30)])
    ELSE Ok([color |-> MeanColour(region_colors), confidence |-> Pct(40)])

\* the dict both analyzers return from their except clause (the improved
\* one adds landmarks_detected: False)
AnalysisFallback(monk_tones, error) ==
    [monk_skin_tone |-> S_Monk \o << "0","4" >>,
     monk_tone_display |-> MonkName(4),
     monk_hex |-> DictGet(monk_tones, MonkName(4),
                        << "#","e","a","d","a","b","a" >>),
     derived_hex_code |-> << "#","e","a","d","a","b","a" >>,
     dominant_rgb |-> << 234, 218, 186 >>,
     confidence |-> 30,
     success |-> FALSE,
     error |-> error,
     face_detected |-> FALSE]

\* the dict of a completed analysis (without analysis_method, and without
\* the landmarks_detected and clustering_confidence the improved analyzer
\* adds); closest_monk.split()[1] and monk_tones[closest_monk] raise inside
\* the try
AnalysisResult(monk_tones, closest_monk, avg_color, confidence, regions) ==
    LET words == Words(closest_monk, << >>)
        monk_hex == Lookup(monk_tones, closest_monk)
    IN IF Len(words) < 2
       THEN AnalysisFallback(monk_tones, "IndexError")
       ELSE IF monk_hex.exc # ""
       THEN AnalysisFallback(monk_tones, monk_hex.exc)
       ELSE [monk_skin_tone |-> S_Monk \o Zfill2(words[2]),
             monk_tone_display |-> closest_monk,
             monk_hex |-> monk_hex.value,
             derived_hex_code |-> DerivedHex(avg_color),
             dominant_rgb |-> avg_color,
             confidence |-> Round2(confidence),
             success |-> TRUE,
             regions_analyzed |-> regions,
             face_detected |-> TRUE]

\* ImprovedSkinToneAnalyzer.analyze_skin_tone_enhanced
analyze_skin_tone_enhanced(image, monk_tones) ==
    IF ~image.face
    THEN AnalysisFallback(monk_tones, "ValueError")
    ELSE LET matched(clustering, closest) ==
                 AnalysisResult(
                     monk_tones, closest.category, clustering.color,
                     calculate_comprehensive_confidence(
                         image.face_image, clustering.color,
                         image.region_colors, clustering.confidence,
                         closest.distance, image.landmarks),
                     Len(image.region_colors))
             clustered(clustering) ==
                 matched(clustering,
                         Improved_find_closest_monk_tone_advanced(
                             clustering.color, monk_tones))
         IN clustered(IF image.region_colors = << >>
                      THEN [color |-> image.center, confidence |-> Pct(30)]
                      ELSE advanced_color_clustering(
                               image.region_colors).value)

\* EnhancedSkinToneAnalyzer.cluster_skin_colors: the average of the samples
\* weighted by their brightness, or their mean when the weights sum to zero
\* and np.average raises; the sample lists of the model hold equal colours,
\* so the divisions are exact
cluster_skin_colors(region_colors) ==
    LET n == Len(region_colors)
        S == [i \in 1..n |-> Sum3(region_colors[i])]
        total == SumOver(S, n)
        weighted(k) == SumOver([i \in 1..n |-> S[i] * region_colors[i][k]], n)
    IN IF region_colors = << >>
       THEN NeutralDefault
       ELSE IF total = 0
       THEN MeanColour(region_colors)
       ELSE << weighted(1) \div total, weighted(2) \div total,
               weighted(3) \div total >>

\* EnhancedSkinToneAnalyzer.analyze_skin_tone
analyze_skin_tone(image, monk_tones) ==
    IF ~image.face
    THEN AnalysisFallback(monk_tones, "ValueError")
    ELSE LET matched(avg_color, closest) ==
                 AnalysisResult(
                     monk_tones, closest.category, avg_color,
                     calculate_advanced_confidence(
                         image.face_image, avg_color, image.region_colors),
                     Len(image.region_colors))
             clustered(avg_color) ==
                 matched(avg_color,
                         Enhanced_find_closest_monk_tone_advanced(
                             avg_color, monk_tones))
         IN clustered(IF image.region_colors = << >>
                      THEN image.center
                      ELSE cluster_skin_colors(image.region_colors))

(***************************************************************************)
(* The services: src/services/detection_service.py and the                 *)
(* /analyze-skin-tone endpoint of src/backend/prods_fastapi/main.py.       *)
(***************************************************************************)
\* the fallback tones of detection_service.py
DetectionFallbackTones ==
    [i \in 1..Len(MONK_TONES) |->
        << S_Monk \o << " " >> \o Zfill2(Decimal(i)), MONK_TONES[i][2] >>]

\* detection_service.get_monk_skin_tones_from_db: 'Monk ' and the last two
\* characters of monk_tone, or the fallback tones when the query raises
get_monk_skin_tones_from_db(db) ==
    IF db.fails
    THEN DetectionFallbackTones
    ELSE [i \in 1..Len(db.rows) |->
             LET monk_tone == db.rows[i].monk_tone
             IN << S_Monk \o << " " >>
                   \o SubSeq(monk_tone, Max(1, Len(monk_tone) - 1),
                             Len(monk_tone)),
                   db.rows[i].hex_code >>]

RECURSIVE FallbackClosestFrom(_, _, _, _, _)
\* the loop of fallback_analysis, from entry i on; a hex code webcolors
\* rejects, or a name of one word, is skipped (except: continue)
FallbackClosestFrom(avg_color, monk_tones, i, min_distance, closest_monk) ==
    IF i > Len(monk_tones)
    THEN closest_monk
    ELSE LET monk_rgb == hex_to_rgb(monk_tones[i][2])
             words == Words(monk_tones[i][1], << >>)
             distance == SquaredRgbDistance(avg_color, monk_rgb.value)
         IN IF monk_rgb.exc # "" \/ ~(distance < min_distance)
            THEN FallbackClosestFrom(avg_color, monk_tones, i + 1,
                                     min_distance, closest_monk)
            ELSE IF Len(words) < 2
            THEN FallbackClosestFrom(avg_color, monk_tones, i + 1,
                                     distance, closest_monk)
            ELSE FallbackClosestFrom(avg_color, monk_tones, i + 1, distance,
                                     S_Monk \o Zfill2(words[2]))

\* detection_service.fallback_analysis: the nearest tone of the table to
\* the mean colour of the centre of the image (distances compared by their
\* squares; the season fields are left out)
fallback_analysis(image, monk_tones) ==
    LET respond(closest_monk) ==
            [monk_code |-> closest_monk,
             confidence |-> 70,
             monk_hex |-> DictGet(monk_tones,
                             S_Monk \o << " " >> \o SubSeq(closest_monk, 5, 6),
                             << "#","d","7","b","d","9","6" >>),
             derived_hex |-> DerivedHex(image.image_center),
             success |-> TRUE,
             fallback |-> TRUE]
    IN respond(FallbackClosestFrom(image.image_center, monk_tones, 1, INF,
                                   S_Monk \o << "0","5" >>))

\* detection_service.analyze_photo, for a file that is an image (the season
\* fields, a lookup in MONK_TO_SEASON by monk_code, are left out)
analyze_photo(image, monk_tones) ==
    LET respond(result) ==
            IF result.success
            THEN [monk_code |-> result.monk_skin_tone,
                  confidence |-> result.confidence,
                  monk_hex |-> result.monk_hex,
                  derived_hex |-> result.derived_hex_code,
                  success |-> TRUE]
            ELSE fallback_analysis(image, monk_tones)
    IN respond(analyze_skin_tone(image, monk_tones))

\* the fallbacks of the /analyze-skin-tone endpoint of main.py, which query
\* skin_tone_mappings again
DatabaseFallback(db) ==
    LET preferred == { i \in 1..Len(db.rows) :
                          /\ Contains(db.rows[i].monk_tone,
                                      S_Monk \o << "0" >>)
                          /\ db.rows[i].monk_tone \in
                                { S_Monk \o << "0","2" >>,
                                  S_Monk \o << "0","3" >>,
                                  S_Monk \o << "0","4" >> } }
        m == IF preferred = { }
             THEN db.rows[1]
             ELSE db.rows[CHOOSE i \in preferred : \A j \in preferred : i <= j]
        fallback_rgb == hex_to_rgb(m.hex_code)
    IN IF db.fails \/ db.rows = << >> \/ fallback_rgb.exc # ""
       THEN [monk_skin_tone |-> S_Monk \o << "0","2" >>,
             monk_tone_display |-> MonkName(2),
             monk_hex |-> << "#","f","3","e","7","d","b" >>,
             derived_hex_code |-> << "#","f","3","e","7","d","b" >>,
             dominant_rgb |-> << 243, 231, 219 >>,
             confidence |-> 30,
             success |-> FALSE,
             error |-> "Ultimate fallback - database unavailable"]
       ELSE [monk_skin_tone |-> m.monk_tone,
             monk_tone_display |->
                 Replace(m.monk_tone, S_Monk \o << "0" >>, S_Monk \o << " " >>),
             monk_hex |-> m.hex_code,
             derived_hex_code |-> m.hex_code,
             dominant_rgb |-> fallback_rgb.value,
             confidence |-> 30,
             success |-> FALSE,
             error |-> "Fallback to database default"]

\* POST /analyze-skin-tone of main.py, for an upload that decodes to an
\* image (the Cloudinary fields of the response are left out)
analyze_skin_tone_endpoint(image, monk_tones, db) ==
    LET respond(result) ==
            IF result.success THEN result ELSE DatabaseFallback(db)
    IN respond(analyze_skin_tone(image, monk_tones))

(***************************************************************************)
(* The services started and called, and the pipeline called directly.      *)
(***************************************************************************)
\* the dominant colours of the images of the model
PipelineColours ==
    { <<246, 237, 228>>, <<215, 189, 150>>, <<130, 92, 67>>, <<58, 49, 42>> }

Sharpnesses == {50, 900}

MaxSamples == 2
\* the skin regions of an image, each by its dominant colour
SampleLists ==
    { << >> } \cup
    { [i \in 1..n |-> c] : n \in 1..MaxSamples, c \in PipelineColours }

\* images without a face, and images of a face of one colour with none, one
\* or two skin regions found
Images ==
    { [face |-> FALSE, landmarks |-> FALSE, region_colors |-> << >>,
       center |-> c, image_center |-> c,
       face_image |-> [valid |-> TRUE, sharpness |-> 50]] :
          c \in PipelineColours } \cup
    { [face |-> TRUE, landmarks |-> l,
       region_colors |-> [i \in 1..n |-> c],
       center |-> c, image_center |-> c,
       face_image |-> [valid |-> TRUE, sharpness |-> s]] :
          l \in BOOLEAN, c \in PipelineColours, s \in Sharpnesses,
          n \in 0..MaxSamples }

\* detection_service.py is imported:
\* MONK_SKIN_TONES = get_monk_skin_tones_from_db()
LoadDetectionTones ==
    /\ MONK_SKIN_TONES = NotLoaded
    /\ call = NoCall
    /\ \E db \in DbStates :
          MONK_SKIN_TONES' =
              [module |-> "detection", tones |-> get_monk_skin_tones_from_db(db)]
    /\ UNCHANGED <<outfits_table, makeup_table, request, outfits, makeup,
                   response, call, candidates,
                   mst_palette_data, cached_data>>

\* POST /analyze-skin-tone of main.py
PostAnalyzeSkinTone ==
    /\ call = NoCall
    /\ MONK_SKIN_TONES.module = "main"
    /\ \E image \in Images, db \in DbStates :
          call' = [fn |-> "analyze_skin_tone_endpoint",
                   image |-> image,
                   monk_tones |-> MONK_SKIN_TONES.tones,
                   result |-> analyze_skin_tone_endpoint(
                                  image, MONK_SKIN_TONES.tones, db)]
    /\ UNCHANGED <<outfits_table, makeup_table, request, outfits, makeup,
                   response, candidates, MONK_SKIN_TONES,
                   mst_palette_data, cached_data>>

\* POST /analyze_photo of detection_service.py
PostAnalyzePhoto ==
    /\ call = NoCall
    /\ MONK_SKIN_TONES.module = "detection"
    /\ \E image \in Images :
          call' = [fn |-> "analyze_photo",
                   image |-> image,
                   monk_tones |-> MONK_SKIN_TONES.tones,
                   result |-> analyze_photo(image, MONK_SKIN_TONES.tones)]
    /\ UNCHANGED <<outfits_table, makeup_table, request, outfits, makeup,
                   response, candidates, MONK_SKIN_TONES,
                   mst_palette_data, cached_data>>

\* analyzer.analyze_skin_tone_enhanced(image, monk_tones), as
\* test_analyzer_comparison.py calls it
CallAnalyzeSkinToneEnhanced ==
    /\ call = NoCall
    /\ MONK_SKIN_TONES = NotLoaded
    /\ \E image \in Images, monk_tones \in MonkToneTables :
          call' = [fn |-> "analyze_skin_tone_enhanced",
                   image |-> image,
                   monk_tones |-> monk_tones,
                   result |-> analyze_skin_tone_enhanced(image, monk_tones)]
    /\ UNCHANGED <<outfits_table, makeup_table, request, outfits, makeup,
                   response, candidates, MONK_SKIN_TONES,
                   mst_palette_data, cached_data>>

\* analyzer.advanced_color_clustering(region_colors)
CallColorClustering ==
    /\ call = NoCall
    /\ MONK_SKIN_TONES = NotLoaded
    /\ \E region_colors \in SampleLists :
          call' = [fn |-> "advanced_color_clustering",
                   region_colors |-> region_colors,
                   result |-> advanced_color_clustering(region_colors)]
    /\ UNCHANGED <<outfits_table, makeup_table, request, outfits, makeup,
                   response, candidates, MONK_SKIN_TONES,
                   mst_palette_data, cached_data>>

NextAnalyze ==
    \/ LoadMonkSkinTones
    \/ LoadDetectionTones
    \/ PostAnalyzeSkinTone
    \/ PostAnalyzePhoto
    \/ CallAnalyzeSkinToneEnhanced
    \/ CallColorClustering

SpecAnalyze == Init /\ [][NextAnalyze]_vars

\* the face images of the scorers' calls: one OpenCV cannot convert, a
\* blurred, a sharp and a very sharp one
ProbeFaceImages ==
    { [valid |-> FALSE, sharpness |-> 0] } \cup
    { [valid |-> TRUE, sharpness |-> s] : s \in {0, 250, 500, 100 * 1000} }

\* the region colours of the scorers' calls
ProbeRegions ==
    { << >>, << <<246, 237, 228>> >>,
      << <<246, 237, 228>>, <<243, 231, 219>> >>,
      << <<0, 0, 0>>, <<255, 255, 255>> >>,
      << <<255, 1, 255>>, <<0, 200, 255>> >>,
      << <<130, 92, 67>>, <<130, 92, 67>>, <<58, 49, 42>> >> }

ProbeClusteringConfidences == { 0, Pct(30), Pct(40), SCALE }

ProbeDistances == { 0, (9 * DIST) \div 4, 150 * DIST, 500 * DIST, INF }

ProbeFinalColours ==
    { <<0, 0, 0>>, <<255, 255, 255>>, <<246, 237, 228>>, <<130, 92, 67>>,
      <<0, 0, 255>>, NotAColour }

\* analyzer.calculate_advanced_confidence(face_image, final_color,
\* region_colors)
CallAdvancedConfidence ==
    /\ call = NoCall
    /\ \E face_image \in ProbeFaceImages,
          final_color \in ToneColours \cup {NotAColour},
          region_colors \in ProbeRegions :
          call' = [fn |-> "calculate_advanced_confidence",
                   face_image |-> face_image,
                   final_color |-> final_color,
                   region_colors |-> region_colors,
                   result |-> calculate_advanced_confidence(
                                  face_image, final_color, region_colors)]
    /\ UNCHANGED <<outfits_table, makeup_table, request, outfits, makeup,
                   response, candidates, MONK_SKIN_TONES,
                   mst_palette_data, cached_data>>

\* analyzer.calculate_comprehensive_confidence(face_image, final_color,
\* region_colors, clustering_confidence, color_distance, has_landmarks)
CallComprehensiveConfidence ==
    /\ call = NoCall
    /\ \E face_image \in ProbeFaceImages, final_color \in ProbeFinalColours,
          region_colors \in ProbeRegions,
          clustering_confidence \in ProbeClusteringConfidences,
          color_distance \in ProbeDistances, has_landmarks \in BOOLEAN :
          call' = [fn |-> "calculate_comprehensive_confidence",
                   face_image |-> face_image,
                   final_color |-> final_color,
                   region_colors |-> region_colors,
                   clustering_confidence |-> clustering_confidence,
                   color_distance |-> color_distance,
                   has_landmarks |-> has_landmarks,
                   result |-> calculate_comprehensive_confidence(
                                  face_image, final_color, region_colors,
                                  clustering_confidence, color_distance,
                                  has_landmarks)]
    /\ UNCHANGED <<outfits_table, makeup_table, request, outfits, makeup,
                   response, candidates, MONK_SKIN_TONES,
                   mst_palette_data, cached_data>>

NextConfidence ==
    \/ CallAdvancedConfidence
    \/ CallComprehensiveConfidence

SpecConfidence == Init /\ [][NextConfidence]_vars

(***************************************************************************)
(* Claims about the tone classifier.                                       *)
(***************************************************************************)
TwoLightest == {MonkName(1), MonkName(2)}

\* the call in the state is a call of fn of the analyzer on a colour
IsCall(fn, analyzer) ==
    /\ call.fn = fn
    /\ call.analyzer = analyzer
    /\ Len(call.rgb_color) = 3

UltraFairCall(fn) ==
    /\ IsCall(fn, "enhanced")
    /\ brightness_prefilter(call.rgb_color).is_ultra_fair

\* C12: for every colour in the ultra-fair band of brightness_prefilter, the
\* rule-based step of the enhanced analyzer returns Monk 1 or Monk 2 with a
\* confidence of at least 0.9, and find_closest_monk_tone_advanced returns
\* Monk 1 or Monk 2 as the final category.
C12_UltraFairIsLightest ==
    /\ UltraFairCall("advanced_skin_tone_classification")
          => /\ call.result.category \in TwoLightest
             /\ call.result.confidence >= 90
    /\ UltraFairCall("find_closest_monk_tone_advanced")
          => call.result.category \in TwoLightest

\* C12 witness: the matcher has answered Monk 1 or Monk 2 for an ultra-fair
\* colour whose nearest reference tone is a darker one.
C12_Witness ==
    /\ UltraFairCall("find_closest_monk_tone_advanced")
    /\ call.monk_tones = MONK_TONES
    /\ Enhanced_closest_from(call.rgb_color, MONK_TONES, 1, INF,
                             MonkName(2)).value.category \notin TwoLightest
    /\ call.result.category \in TwoLightest

\* the call in the state is a call of one of the three matchers
MatcherCall ==
    call.fn \in {"find_closest_monk_tone_advanced",
                 "find_closest_monk_tone_enhanced"}

\* the (category, distance) the matcher returned
Returned == IF call.analyzer = "main" THEN call.result.value ELSE call.result

\* the colour of the call is the reference colour of entry i of its table,
\* a table of all ten categories
ExactlyEntry(i) ==
    /\ MatcherCall
    /\ Len(call.monk_tones) = MaxDbRows
    /\ i \in 1..Len(call.monk_tones)
    /\ MonkRgb(call.monk_tones[i][2]) = Ok(call.rgb_color)

\* C13: matching a colour that is exactly the reference colour of a category
\* of the table returns that category with distance 0, in
\* find_closest_monk_tone_advanced of both analyzers and in
\* find_closest_monk_tone_enhanced.
C13_ExactReferenceMatchesItself ==
    \A i \in 1..MaxDbRows :
        ExactlyEntry(i) => Returned = Match(call.monk_tones[i][1], 0)

MonkCategories == { MonkName(n) : n \in 1..10 }

RuleCall == call.fn = "advanced_skin_tone_classification"

\* C14: advanced_skin_tone_classification of either analyzer returns a
\* (category, confidence) pair on every path: the category is one of
\* Monk 1 .. Monk 10 and the confidence is between 0.5 and 0.99.
C14_RuleStepAlwaysAnswers ==
    RuleCall
        => /\ call.result # NoTuple
           /\ call.result.category \in MonkCategories
           /\ call.result.confidence >= 50
           /\ call.result.confidence <= 99

\* C14 witness: the enhanced rule step has answered a bright colour that the
\* fair-skin layer let through, in the brightness block that has no else.
C14_Witness ==
    /\ RuleCall
    /\ IsCall("advanced_skin_tone_classification", "enhanced")
    /\ Sum3(call.rgb_color) > 3 * 170
    /\ perfect_fair_skin_classification(
           brightness_prefilter(call.rgb_color)).category = None
    /\ call.result = Pair(MonkName(2), 85)

\* the very bright fair-skin colours of the repository's tests
VeryBrightFair ==
    { <<246, 237, 228>>, <<243, 231, 219>>, <<240, 225, 210>>,
      <<250, 240, 230>> }

\* C15: (246,237,228), and the other very bright fair-skin colours such as
\* (243,231,219), are classified Monk 1 or Monk 2 by the rule-based step,
\* with a confidence of at least 0.85, and by find_closest_monk_tone_advanced,
\* in both analyzers.
C15_VeryBrightIsMonk1Or2 ==
    call.fn # "" /\ call.rgb_color \in VeryBrightFair
        => /\ RuleCall => /\ call.result.category \in TwoLightest
                          /\ call.result.confidence >= 85
           /\ call.fn = "find_closest_monk_tone_advanced"
                 => call.result.category \in TwoLightest

\* C15 witness: the full matching of the enhanced analyzer has answered
\* Monk 1 for (240,225,210) against the ten reference tones, the nearest of
\* which is Monk 3.
C15_Witness ==
    /\ IsCall("find_closest_monk_tone_advanced", "enhanced")
    /\ call.rgb_color = <<240, 225, 210>>
    /\ call.monk_tones = MONK_TONES
    /\ Enhanced_closest_from(call.rgb_color, MONK_TONES, 1, INF,
                             MonkName(2)).value.category = MonkName(3)
    /\ call.result.category = MonkName(1)

ThreeDarkest == {MonkName(8), MonkName(9), MonkName(10)}

VeryDarkSkin == <<60, 40, 30>>

\* the ITA of a colour, as the analyzers compute it from OpenCV's 8-bit L
\* and b, is at or below deg degrees
ItaAtMost(rgb_color, deg) ==
    LET lab == cv2_RGB2LAB(rgb_color)
    IN ~ItaAbove(lab[1], lab[3], deg)

\* C16: (60,40,30) is classified Monk 8, 9 or 10, and the rule-based step of
\* the enhanced analyzer reaches that result through its darkest ITA branch,
\* the one taken when the ITA is at or below -20 degrees.
C16_VeryDarkViaDarkestBranch ==
    call.fn # "" /\ call.analyzer = "enhanced" /\ call.rgb_color = VeryDarkSkin
        => /\ call.result.category \in ThreeDarkest
           /\ RuleCall => ItaAtMost(call.rgb_color, 0 - 20)

(***************************************************************************)
(* Claims about the analysis pipeline and the services.                    *)
(***************************************************************************)
EstimatorCall == call.fn = "advanced_color_clustering"

PipelineCall == call.fn = "analyze_skin_tone_enhanced"

\* the image of the call has no usable samples: no face, or a face of which
\* no skin region is found
NoUsableSamples == ~call.image.face \/ call.image.region_colors = << >>

ScorerCall ==
    call.fn \in {"calculate_advanced_confidence",
                 "calculate_comprehensive_confidence"}

\* C18: both confidence scorers return a value in [0, 1] (0..SCALE in units
\* of 1/SCALE) for black, white and every other final colour, any sharpness,
\* any number of regions and any distance; when the scorer's own computation
\* fails (OpenCV cannot convert the face image, or, in
\* calculate_advanced_confidence, the final colour) the result is exactly
\* 0.5 and nothing is raised.
C18_ConfidenceInUnitInterval ==
    ScorerCall
        => /\ call.result \in 0..SCALE
           /\ ~call.face_image.valid => call.result = HALF
           /\ call.fn = "calculate_advanced_confidence"
                 /\ call.final_color = NotAColour
                 => call.result = HALF

\* C18 witness: calculate_advanced_confidence has scored pure black from a
\* very sharp face image with three regions, where the uncapped sharpness
\* term alone would be 200 * 0.2, and has answered inside [0, 1] and not
\* with the default.
C18_Witness ==
    /\ call.fn = "calculate_advanced_confidence"
    /\ call.final_color = <<0, 0, 0>>
    /\ call.face_image.valid
    /\ call.face_image.sharpness > 500
    /\ Len(call.region_colors) = 3
    /\ call.result \in 0..SCALE
    /\ call.result # HALF

(***************************************************************************)
(* The colour utilities: ColorAnalysisUtils.hex_to_rgb and rgb_to_hex of   *)
(* src/backend/prods_fastapi/utils/color_analysis_utils.py.                *)
(***************************************************************************)
RECURSIVE LStrip(_, _)
\* str.lstrip(ch)
LStrip(s, ch) == IF s # << >> /\ s[1] = ch THEN LStrip(Tail(s), ch) ELSE s

RECURSIVE HexOf(_)
\* format(n, 'x') of n >= 0
HexOf(n) ==
    IF n < 16
    THEN << HexDigits[n + 1] >>
    ELSE HexOf(n \div 16) \o << HexDigits[(n % 16) + 1] >>

\* format(n, '02x'): padded with zeros to two digits, longer when n > 255
Format02x(n) == IF n < 16 THEN << "0" >> \o HexOf(n) ELSE HexOf(n)

\* a formatter without the zero padding
ColorAnalysisUtils_rgb_to_hex_Unpadded(r, g, b) ==
    << "#" >> \o HexOf(r) \o HexOf(g) \o HexOf(b)

\* ColorAnalysisUtils.rgb_to_hex: f"#{r:02x}{g:02x}{b:02x}"
ColorAnalysisUtils_rgb_to_hex(r, g, b) ==
    << "#" >> \o Format02x(r) \o Format02x(g) \o Format02x(b)

\* ColorAnalysisUtils.hex_to_rgb
ColorAnalysisUtils_hex_to_rgb(hex_code) ==
    LET channels(stripped) ==
            IF Len(stripped) # 6
            THEN Raise("ValueError")
            ELSE LET parsed(r, g, b) ==
                         IF r.exc # "" \/ g.exc # "" \/ b.exc # ""
                         THEN Raise("ValueError")
                         ELSE Ok(<< r.value, g.value, b.value >>)
                 IN parsed(IntHex(Slice(stripped, 0, 2)),
                           IntHex(Slice(stripped, 2, 4)),
                           IntHex(Slice(stripped, 4, 6)))
    IN channels(LStrip(hex_code, "#"))

MaxChannel == 255

\* the channel values at the edges of one and two hex digits
EdgeChannels == {0, 9, 10, 15, 16, MaxChannel}

\* every value of one channel, with the other two at the edges
RgbInputs ==
    { << r, g, b >> : r \in 0..MaxChannel, g \in EdgeChannels,
                      b \in EdgeChannels }
    \cup { << g, r, b >> : r \in 0..MaxChannel, g \in EdgeChannels,
                           b \in EdgeChannels }
    \cup { << g, b, r >> : r \in 0..MaxChannel, g \in EdgeChannels,
                           b \in EdgeChannels }

HexInputChars == {"0", "9", "a", "F"}

\* six-digit hex colours in either case, with and without the '#', and
\* codes of five and seven digits
HexInputs ==
    { p \o << a, b, c, d, e, f >> :
          p \in { << >>, << "#" >> },
          a \in HexInputChars, b \in HexInputChars, c \in HexInputChars,
          d \in HexInputChars, e \in HexInputChars, f \in HexInputChars }
    \cup { H_short, H_short \o << "6", "7" >> }

\* ColorAnalysisUtils.rgb_to_hex(r, g, b)
CallRgbToHex ==
    /\ call = NoCall
    /\ \E rgb \in RgbInputs :
          call' = [fn |-> "rgb_to_hex",
                   rgb |-> rgb,
                   result |-> ColorAnalysisUtils_rgb_to_hex(
                                  rgb[1], rgb[2], rgb[3])]
    /\ UNCHANGED <<outfits_table, makeup_table, request, outfits, makeup,
                   response, candidates, MONK_SKIN_TONES,
                   mst_palette_data, cached_data>>

\* ColorAnalysisUtils.hex_to_rgb(hex_code)
CallHexToRgb ==
    /\ call = NoCall
    /\ \E hex_code \in HexInputs :
          call' = [fn |-> "hex_to_rgb",
                   hex_code |-> hex_code,
                   result |-> ColorAnalysisUtils_hex_to_rgb(hex_code)]
    /\ UNCHANGED <<outfits_table, makeup_table, request, outfits, makeup,
                   response, candidates, MONK_SKIN_TONES,
                   mst_palette_data, cached_data>>

NextHex ==
    \/ CallRgbToHex
    \/ CallHexToRgb

SpecHex == Init /\ [][NextHex]_vars

(***************************************************************************)
(* Claims about the colour utilities.                                      *)
(***************************************************************************)
\* a valid hex colour: six hex digits after the leading '#', if any
ValidHexColour(h) ==
    LET digits == LStrip(h, "#")
    IN Len(digits) = 6 /\ \A i \in 1..6 : IsHexDigit(digits[i])

\* two hex codes denote the same colour: the same digits, whatever their
\* case and with or without the '#'
SameColour(h1, h2) == Lower(LStrip(h1, "#")) = Lower(LStrip(h2, "#"))

\* C19: for channels in 0..255, rgb_to_hex(r, g, b) is '#' followed by
\* exactly six hex digits and hex_to_rgb of it is (r, g, b) again; for a
\* valid six-digit hex colour h, hex_to_rgb(h) succeeds and rgb_to_hex of
\* its channels denotes the same colour as h.
C19_HexRgbRoundTrip ==
    /\ call.fn = "rgb_to_hex"
          => /\ Len(call.result) = 7
             /\ call.result[1] = "#"
             /\ \A i \in 2..7 : IsHexDigit(call.result[i])
             /\ ColorAnalysisUtils_hex_to_rgb(call.result) = Ok(call.rgb)
    /\ call.fn = "hex_to_rgb" /\ ValidHexColour(call.hex_code)
          => /\ call.result.exc = ""
             /\ SameColour(ColorAnalysisUtils_rgb_to_hex(
                               call.result.value[1], call.result.value[2],
                               call.result.value[3]),
                           call.hex_code)

\* C19 witness: rgb_to_hex has formatted a colour with channels of one hex
\* digit, where the zero padding matters, and the result parses back.
C19_Witness ==
    /\ call.fn = "rgb_to_hex"
    /\ call.rgb = << 0, 9, 255 >>
    /\ call.result = << "#", "0", "0", "0", "9", "f", "f" >>
    /\ ColorAnalysisUtils_hex_to_rgb(call.result) = Ok(call.rgb)

(***************************************************************************)
(* Claims about the tone table of the services.                            *)
(***************************************************************************)
ServiceCall == call.fn \in {"analyze_skin_tone_endpoint", "analyze_photo"}

\* the table names every ordinal 1..10: for each there is a key whose
\* second word is the ordinal, written with or without a leading zero
FullToneTable(tones) ==
    \A i \in 1..Len(MONK_TONES) :
        \E j \in 1..Len(tones) :
            Words(tones[j][1], << >>) \in
                { << S_Monk, Decimal(i) >>, << S_Monk, Zfill2(Decimal(i)) >> }

\* C20: a service whose tone table could not be loaded, or was loaded with
\* fewer than the ten ordinals 1..10, classifies no request: no request is
\* answered with a successful classification against a partial or
\* substitute table.
C20_BadToneTableIsFatal ==
    MONK_SKIN_TONES.module # "" /\ ~FullToneTable(MONK_SKIN_TONES.tones)
        => ~(ServiceCall /\ call.result.success)

(***************************************************************************)
(* EnhancedColorRecommendationService of                                   *)
(* src/backend/prods_fastapi/services/enhanced_color_service.py.  A dict   *)
(* is a sequence of <<key, value>> pairs in insertion order; a palette     *)
(* keeps its base, accent and occasion colours (the names of the colours   *)
(* and the styling texts of the response are left out).                    *)
(***************************************************************************)
IsDigit(c) == \E i \in 1..10 : DecimalDigits[i] = c

DigitVal(c) == (CHOOSE i \in 1..10 : DecimalDigits[i] = c) - 1

RECURSIVE DecimalValue(_)
\* the value of a string of decimal digits
DecimalValue(digits) ==
    IF digits = << >>
    THEN 0
    ELSE 10 * DecimalValue(SubSeq(digits, 1, Len(digits) - 1))
         + DigitVal(digits[Len(digits)])

RECURSIVE StripBlanks(_)
\* str.strip() for blanks
StripBlanks(s) ==
    IF s # << >> /\ s[1] = " " THEN StripBlanks(Tail(s))
    ELSE IF s # << >> /\ s[Len(s)] = " "
    THEN StripBlanks(SubSeq(s, 1, Len(s) - 1))
    ELSE s

\* int(s) of a str: blanks around, a sign, decimal digits (the underscores
\* int() also reads do not occur in the model)
IntOfStr(s) ==
    LET parse(t) ==
            LET signed(sign, digits) ==
                    IF digits = << >>
                       \/ \E i \in 1..Len(digits) : ~IsDigit(digits[i])
                    THEN Raise("ValueError")
                    ELSE Ok(sign * DecimalValue(digits))
            IN IF t # << >> /\ t[1] = "-" THEN signed(0 - 1, Tail(t))
               ELSE IF t # << >> /\ t[1] = "+" THEN signed(1, Tail(t))
               ELSE signed(1, t)
    IN parse(StripBlanks(s))

RECURSIVE DigitRun(_)
\* the digits s starts with
DigitRun(s) ==
    IF s # << >> /\ IsDigit(s[1])
    THEN << s[1] >> \o DigitRun(Tail(s))
    ELSE << >>

RECURSIVE SearchDigits(_)
\* re.search(r'\d+', s).group(), or the empty string when there is no match
SearchDigits(s) ==
    IF s = << >> THEN << >>
    ELSE IF IsDigit(s[1]) THEN DigitRun(s)
    ELSE SearchDigits(Tail(s))

\* an mst id, or the None a function returns by falling off its end
MstId(n) == [is_none |-> FALSE, value |-> n]
NoMstId == [is_none |-> TRUE, value |-> 0]

\* EnhancedColorRecommendationService.monk_tone_to_mst_id: a string with
\* "monk" in it and no digit matches nothing, and the function ends without
\* a return
Enhanced_monk_tone_to_mst_id(monk_tone) ==
    IF Contains(Lower(monk_tone), << "m","o","n","k" >>)
    THEN IF SearchDigits(monk_tone) # << >>
         THEN MstId(DecimalValue(SearchDigits(monk_tone)))
         ELSE NoMstId
    ELSE IF IntOfStr(monk_tone).exc # ""
    THEN MstId(5)
    ELSE MstId(IntOfStr(monk_tone).value)

\* the keys of a dict, in insertion order
Keys(d) == [i \in 1..Len(d) |-> d[i][1]]

\* d[k] = v: the value replaced in place, or the pair appended
DictSet(d, k, v) ==
    IF \E i \in 1..Len(d) : d[i][1] = k
    THEN [i \in 1..Len(d) |-> IF d[i][1] = k THEN << k, v >> ELSE d[i]]
    ELSE Append(d, << k, v >>)

RECURSIVE DictFromList(_, _)
\* for palette in palette_list: d[palette['mst_id']] = palette
DictFromList(d, palette_list) ==
    IF palette_list = << >>
    THEN d
    ELSE DictFromList(DictSet(d, palette_list[1].mst_id, palette_list[1]),
                      Tail(palette_list))

\* min(keys, key=lambda x: abs(x - mst_id)): the first key at the least
\* distance
ClosestKey(keys, mst_id) ==
    keys[CHOOSE i \in 1..Len(keys) :
            /\ \A j \in 1..Len(keys) :
                  Abs(keys[i] - mst_id) <= Abs(keys[j] - mst_id)
            /\ \A j \in 1..(i - 1) :
                  Abs(keys[j] - mst_id) > Abs(keys[i] - mst_id)]

\* _load_fallback_data (its palettes have no occasion_palettes, for which
\* _get_occasion_palette takes the empty dict)
FallbackPaletteData ==
    << << 3, [base_palette |-> << "#00A499", "#007FA3", "#FFB81C", "#DA291C" >>,
              accent_palette |-> << "#FFCD00", "#FF8200", "#E40046" >>,
              occasion_palettes |-> << >>] >>,
       << 5, [base_palette |-> << "#24563F", "#B58150", "#7C4D3A", "#71C5E8" >>,
              accent_palette |-> << "#009CA6", "#009F4D", "#1A83D7" >>,
              occasion_palettes |-> << >>] >> >>

\* load_mst_master_palette: the rows of mst_master_palette, else the list of
\* the JSON file, else the fallback data
load_mst_master_palette(db, json_file) ==
    LET loaded(from_db) ==
            IF from_db # << >>
            THEN from_db
            ELSE LET read(from_json) ==
                         IF from_json # << >>
                         THEN from_json
                         ELSE FallbackPaletteData
                 IN read(IF json_file.missing
                         THEN << >>
                         ELSE DictFromList(<< >>, json_file.palette_list))
    IN loaded(IF db.fails THEN << >> ELSE DictFromList(<< >>, db.records))

\* occasion_mapping of _get_occasion_palette
Enhanced_occasion_mapping ==
    << << W_work, W_work >>, << W_business, W_work >>,
       << W_professional, W_work >>, << << "o","f","f","i","c","e" >>, W_work >>,
       << W_casual, W_casual >>, << W_everyday, W_casual >>,
       << W_weekend, W_casual >>, << W_party, W_festive_wedding >>,
       << << "w","e","d","d","i","n","g" >>, W_festive_wedding >>, << W_festive, W_festive_wedding >>,
       << W_celebration, W_festive_wedding >>,
       << W_formal, W_formal_black_tie >>, << W_black_tie, W_formal_black_tie >>,
       << << "e","v","e","n","i","n","g" >>, W_formal_black_tie >>, << S_gala, W_formal_black_tie >> >>

\* _get_occasion_palette
Enhanced_get_occasion_palette(palette_data, occasion) ==
    DictGet(palette_data.occasion_palettes,
            DictGet(Enhanced_occasion_mapping, Lower(occasion), W_casual),
            << >>)

RECURSIVE Unique(_, _)
\* the elements of s not in seen, each once, in order
Unique(s, seen) ==
    IF s = << >> THEN << >>
    ELSE IF s[1] \in seen THEN Unique(Tail(s), seen)
    ELSE << s[1] >> \o Unique(Tail(s), seen \cup {s[1]})

\* get_comprehensive_recommendations
get_comprehensive_recommendations(data, monk_tone, occasion, limit) ==
    LET respond(mst_id) ==
            LET palette_data == DictGet(data, mst_id, << >>)
            IN Ok([monk_skin_tone |-> monk_tone,
                   mst_id |-> mst_id,
                   occasion |-> occasion,
                   colors_that_suit |->
                       Take(Unique(
                                Take(Enhanced_get_occasion_palette(
                                         palette_data, occasion), limit \div 2)
                                \o Take(palette_data.base_palette, limit \div 3)
                                \o Take(palette_data.accent_palette,
                                        limit \div 4),
                                { }),
                            limit)])
        lookup(mst_id) ==
            IF ~mst_id.is_none /\ \E i \in 1..Len(data) : data[i][1] = mst_id.value
            THEN respond(mst_id.value)
            ELSE IF data = << >>
            THEN Raise("ValueError")
            ELSE IF mst_id.is_none
            THEN Raise("TypeError")
            ELSE respond(ClosestKey(Keys(data), mst_id.value))
    IN lookup(Enhanced_monk_tone_to_mst_id(monk_tone))


\* a row of mst_master_palette as migrate_mst_data.py writes it; the
\* colours are the same for every id
PaletteOf(id) ==
    [mst_id |-> id,
     base_palette |-> << "#111111", "#222222", "#333333" >>,
     accent_palette |-> << "#222222", "#444444" >>,
     occasion_palettes |-> << << W_casual, << "#555555", "#111111" >> >>,
                              << W_work, << "#666666" >> >> >>]

\* no palette, the palettes of all ten tones, and those of two tones
PaletteLists ==
    { << >>, [i \in 1..Len(MONK_TONES) |-> PaletteOf(i)],
      << PaletteOf(2), PaletteOf(8) >> }

MstDbStates ==
    { [fails |-> TRUE, records |-> << >>] } \cup
    { [fails |-> FALSE, records |-> l] : l \in PaletteLists }

JsonFiles ==
    { [missing |-> TRUE, palette_list |-> << >>] } \cup
    { [missing |-> FALSE, palette_list |-> l] : l \in PaletteLists }

\* the tone strings of test_enhanced_service.py and of the routes, and
\* strings with "monk" and no digit
MonkToneInputs ==
    { << "M","o","n","k","9","9" >>, << "I","n","v","a","l","i","d","F","o","r","m","a","t" >>, << "0" >>, << "M","o","n","k","0","3" >>, << "M","o","n","k"," ","5" >>, << "3" >>,
      << "M","o","n","k" >>, << "m","o","n","k"," ","t","o","n","e" >>, << "1","1" >>, << "-","2" >>, << >> }

RecommendOccasions == { W_casual, << "W","o","r","k" >>, S_gala }

RecommendLimits == { 5, 20 }

\* enhanced_color_service = EnhancedColorRecommendationService()
NewEnhancedColorService ==
    /\ call = NoCall
    /\ mst_palette_data = NotConstructed
    /\ \E db \in MstDbStates, json_file \in JsonFiles :
          mst_palette_data' =
              [constructed |-> TRUE,
               data |-> load_mst_master_palette(db, json_file)]
    /\ UNCHANGED <<outfits_table, makeup_table, request, outfits, makeup,
                   response, call, candidates, MONK_SKIN_TONES, cached_data>>

\* enhanced_color_service.get_comprehensive_recommendations(monk_tone,
\* occasion, limit)
GetComprehensiveRecommendations ==
    /\ call = NoCall
    /\ mst_palette_data.constructed
    /\ \E monk_tone \in MonkToneInputs, occasion \in RecommendOccasions,
          limit \in RecommendLimits :
          call' = [fn |-> "get_comprehensive_recommendations",
                   monk_tone |-> monk_tone,
                   occasion |-> occasion,
                   limit |-> limit,
                   result |-> get_comprehensive_recommendations(
                                  mst_palette_data.data, monk_tone, occasion,
                                  limit)]
    /\ UNCHANGED <<outfits_table, makeup_table, request, outfits, makeup,
                   response, candidates, MONK_SKIN_TONES, mst_palette_data,
                   cached_data>>

NextRecommend ==
    \/ NewEnhancedColorService
    \/ GetComprehensiveRecommendations

SpecRecommend == Init /\ [][NextRecommend]_vars

(***************************************************************************)
(* Claims about the colour recommendation service.                         *)
(***************************************************************************)
RecommendCall == call.fn = "get_comprehensive_recommendations"

\* C21: get_comprehensive_recommendations returns a recommendation for
\* every monk_tone string - an absent id, a string that is no tone, a
\* string with "monk" and no digits, an id out of range - without raising,
\* and the mst_id of the result is a key of the loaded palette data.
C21_AlwaysRecommends ==
    RecommendCall
        => /\ call.result.exc = ""
           /\ \E i \in 1..Len(mst_palette_data.data) :
                  mst_palette_data.data[i][1] = call.result.value.mst_id

(***************************************************************************)
(* Claims about the arbitration, the shortcut and the weights of the       *)
(* matchers.                                                               *)
(***************************************************************************)
AdvancedMatcherCall == call.fn = "find_closest_monk_tone_advanced"

\* what the rule-based step answers for the colour of the call
RuleResult ==
    IF call.analyzer = "enhanced"
    THEN Enhanced_advanced_skin_tone_classification(call.rgb_color)
    ELSE Improved_advanced_skin_tone_classification(call.rgb_color)

\* what the distance loop answers for the colour and the table of the call
LoopResult ==
    IF call.analyzer = "enhanced"
    THEN Enhanced_closest_from(call.rgb_color, call.monk_tones, 1, INF,
                               MonkName(2)).value
    ELSE Improved_closest_from(call.rgb_color, call.monk_tones, 1, INF,
                               MonkName(4)).value

RulePreferred ==
    RuleResult.category \in LightCategories /\ RuleResult.confidence > 75

\* C22: when the rule-based step returned Monk 1, 2 or 3 with confidence
\* above 0.75, find_closest_monk_tone_advanced returns the rule category
\* and 0.8 times the least combined distance; otherwise it returns the
\* category and the distance of the distance loop, unscaled.
C22_Arbitration ==
    AdvancedMatcherCall
        => IF RulePreferred
           THEN /\ call.result.category = RuleResult.category
                /\ call.result.distance =
                       (IF LoopResult.distance = INF
                        THEN INF
                        ELSE (8 * LoopResult.distance) \div 10)
           ELSE call.result = LoopResult

\* C22 witness: the improved analyzer has answered the rule category where
\* the distance loop found another, with 0.8 times the loop's distance.
C22_Witness ==
    /\ AdvancedMatcherCall
    /\ call.analyzer = "improved"
    /\ call.monk_tones = MONK_TONES
    /\ RulePreferred
    /\ LoopResult.category # RuleResult.category
    /\ LoopResult.distance > 0
    /\ call.result = Match(RuleResult.category,
                           (8 * LoopResult.distance) \div 10)

\* the call in the state is a call of the rule-based step of the enhanced
\* analyzer on a colour
EnhancedRuleCall == IsCall("advanced_skin_tone_classification", "enhanced")

\* one of the three light bands of brightness_prefilter fires for the colour
LightBandFires ==
    \/ brightness_prefilter(call.rgb_color).is_ultra_fair
    \/ brightness_prefilter(call.rgb_color).is_very_fair
    \/ brightness_prefilter(call.rgb_color).is_fair

\* what the ITA step answers for the colour of the call
ItaStepResult ==
    Enhanced_ita_bands(Sum3(call.rgb_color),
                       cv2_RGB2LAB(call.rgb_color)[1],
                       cv2_RGB2LAB(call.rgb_color)[3])

\* C23: when a light band (is_ultra_fair, is_very_fair or is_fair) fires,
\* the rule-based step of the enhanced analyzer returns the answer of the
\* fair-skin layer, one of Monk 1..3 with confidence at least 0.85, and
\* the ITA step is not reached; when no light band fires, the fair-skin
\* layer returns no category and the ITA step decides.
C23_LightSkinShortcut ==
    EnhancedRuleCall
        => IF LightBandFires
           THEN /\ call.result.category \in LightCategories
                /\ call.result.confidence >= 85
                /\ call.result = perfect_fair_skin_classification(
                                     brightness_prefilter(call.rgb_color))
           ELSE /\ perfect_fair_skin_classification(
                       brightness_prefilter(call.rgb_color)) = Pair(None, 0)
                /\ call.result = ItaStepResult

\* C23 witness: a light band has fired and the classifier has answered with
\* the fair-skin layer where the ITA step would have answered otherwise.
C23_Witness ==
    /\ EnhancedRuleCall
    /\ LightBandFires
    /\ call.result # ItaStepResult
    /\ call.result.confidence >= 85

\* the weights and the penalty factor the analyzer of the call uses for an
\* estimate of brightness b3 / 3 and a reference tone of brightness m3 / 3
TierWeights(b3) ==
    IF call.analyzer = "enhanced"
    THEN Enhanced_weights(b3)
    ELSE Improved_weights(b3)

PenaltyFactor(b3, m3) ==
    IF call.analyzer = "enhanced"
    THEN Enhanced_penalty_factor(b3, m3)
    ELSE 10

EstimateBrightness3 == Sum3(call.rgb_color)

\* C24: against the weights used for the estimate of a matcher call, every
\* brighter estimate has a weight of the brightness term (w4) that is not
\* smaller and weights of the RGB, Lab and hue terms (w1..w3) that are not
\* larger; and the brightness-penalty multiplier used for the estimate
\* does not increase with the brightness of the reference tone.
C24_WeightsMonotone ==
    AdvancedMatcherCall
        => /\ \A b3 \in EstimateBrightness3..(3 * MaxChannel) :
                  /\ TierWeights(b3).w4 >= TierWeights(EstimateBrightness3).w4
                  /\ TierWeights(b3).w1 <= TierWeights(EstimateBrightness3).w1
                  /\ TierWeights(b3).w2 <= TierWeights(EstimateBrightness3).w2
                  /\ TierWeights(b3).w3 <= TierWeights(EstimateBrightness3).w3
           /\ \A m3 \in 1..(3 * MaxChannel) :
                  PenaltyFactor(EstimateBrightness3, m3)
                      <= PenaltyFactor(EstimateBrightness3, m3 - 1)

\* C24 witness: the enhanced matcher has matched an estimate of the fair
\* tier against the ten tones, with a larger multiplier for Monk 10 than
\* for Monk 1, a smaller w4 than the very fair tier and a larger w4 than
\* the moderately fair tier.
C24_Witness ==
    /\ AdvancedMatcherCall
    /\ call.analyzer = "enhanced"
    /\ call.monk_tones = MONK_TONES
    /\ EstimateBrightness3 > 3 * 200
    /\ EstimateBrightness3 <= 3 * 220
    /\ call.result.distance < INF
    /\ TierWeights(EstimateBrightness3).w4 < TierWeights(3 * 221).w4
    /\ TierWeights(EstimateBrightness3).w4 > TierWeights(3 * 200).w4
    /\ PenaltyFactor(EstimateBrightness3, Sum3(<<41, 36, 32>>))
           > PenaltyFactor(EstimateBrightness3, Sum3(<<246, 237, 228>>))

(***************************************************************************)
(* Colour estimation with three or more samples                            *)
(* (improved_skin_tone_analyzer.py, advanced_color_clustering,             *)
(* remove_color_outliers, calculate_clustering_confidence).  Cluster       *)
(* centres are means of at most four colours and are kept in twelfths of   *)
(* a channel unit; norms are rounded up to a twelfth.                      *)
(***************************************************************************)
RECURSIVE SortedInsert(_, _)
SortedInsert(s, x) ==
    IF s = << >> THEN << x >>
    ELSE IF x <= Head(s) THEN << x >> \o s
    ELSE << Head(s) >> \o SortedInsert(Tail(s), x)

RECURSIVE Sorted(_)
\* np.sort of a sequence of numbers
Sorted(s) == IF s = << >> THEN << >> ELSE SortedInsert(Sorted(Tail(s)), Head(s))

\* 4 * np.percentile(values, 25 * q): linear interpolation between the
\* order statistics around position q * (n - 1) / 4
Percentile4(values, q) ==
    LET at(sorted, i, r) ==
            IF r = 0 THEN 4 * sorted[i + 1]
            ELSE (4 - r) * sorted[i + 1] + r * sorted[i + 2]
    IN at(Sorted(values), (q * (Len(values) - 1)) \div 4,
          (q * (Len(values) - 1)) % 4)

\* colors[mask] for mask = (brightness >= Q1 - f * IQR) & (brightness <=
\* Q3 + f * IQR), f = f2 / 2; brightness is np.mean(colors, axis=1), kept
\* times 3, the quartiles times 12 and the bounds times 24
FenceMask(colors, f2) ==
    LET within(Q1, Q3) ==
            LET keep(c) == /\ 8 * Sum3(c) >= 2 * Q1 - f2 * (Q3 - Q1)
                           /\ 8 * Sum3(c) <= 2 * Q3 + f2 * (Q3 - Q1)
            IN SelectSeq(colors, keep)
        brightness == [i \in 1..Len(colors) |-> Sum3(colors[i])]
    IN within(Percentile4(brightness, 1), Percentile4(brightness, 3))

\* an outlier filter that keeps the colours between the quartiles only
remove_color_outliers_Quartiles(colors) == FenceMask(colors, 0)

\* ImprovedSkinToneAnalyzer.remove_color_outliers
remove_color_outliers(colors) ==
    LET ensured(cleaned_colors) ==
            IF Len(cleaned_colors) > 0 THEN cleaned_colors ELSE colors
        strict(cleaned_colors) ==
            IF 2 * Len(cleaned_colors) < Len(colors)
            THEN ensured(FenceMask(colors, 5))
            ELSE ensured(cleaned_colors)
    IN strict(FenceMask(colors, 3))

Scale12(c) == << 12 * c[1], 12 * c[2], 12 * c[3] >>

\* 12 * np.mean(colors, axis=0) over the colours with the indices in idx
\* (exact for up to four colours)
MeanOf12(colors, idx) ==
    LET sum(ch) == SumOver([i \in 1..Len(colors) |->
                               IF i \in idx THEN colors[i][ch] ELSE 0],
                           Len(colors))
    IN << (12 * sum(1)) \div Cardinality(idx),
          (12 * sum(2)) \div Cardinality(idx),
          (12 * sum(3)) \div Cardinality(idx) >>

\* 12 * np.median(colors, axis=0)
Median12(colors) ==
    LET n == Len(colors)
        med(sorted) == IF n % 2 = 1 THEN 12 * sorted[(n + 1) \div 2]
                       ELSE 6 * (sorted[n \div 2] + sorted[n \div 2 + 1])
    IN << med(Sorted([i \in 1..n |-> colors[i][1]])),
          med(Sorted([i \in 1..n |-> colors[i][2]])),
          med(Sorted([i \in 1..n |-> colors[i][3]])) >>

\* np.linalg.norm(a - b) of two colours in twelfths, rounded up
Norm12(a, b) == CeilSqrtIn(0, 5400, SquaredRgbDistance(a, b))

\* the labellings of n points with the labels numbered in the order of
\* their first use
Labellings(n, k) ==
    { l \in [1..n -> 1..k] :
          /\ l[1] = 1
          /\ \A i \in 2..n : \E j \in 1..(i - 1) : l[i] <= l[j] + 1 }

\* The outcomes of KMeans(n_clusters=k, random_state=42, n_init=10).fit on
\* the colours, up to the numbering of the clusters: scikit-learn is not
\* part of the repository, and the model admits every fixed point of
\* Lloyd's iteration.  The centre of a cluster is the mean of its members,
\* every point is labelled with a nearest centre, equal colours have the
\* same label, and a cluster without members (more clusters than distinct
\* points) has the centre of another.
KMeansFits(colors, k) ==
    LET n == Len(colors)
        used(l) == { l[i] : i \in 1..n }
        centers(l, spare) ==
            [j \in 1..k |->
                IF j \in used(l)
                THEN MeanOf12(colors, { i \in 1..n : l[i] = j })
                ELSE MeanOf12(colors, { i \in 1..n : l[i] = spare[j] })]
        nearest(fit) ==
            \A i \in 1..n, j \in 1..k :
                SquaredRgbDistance(Scale12(colors[i]),
                                   fit.centers[fit.labels[i]])
                    <= SquaredRgbDistance(Scale12(colors[i]), fit.centers[j])
        fits(l) == { [labels |-> l, centers |-> centers(l, spare)] :
                         spare \in [(1..k) \ used(l) -> used(l)] }
        labellings ==
            { l \in Labellings(n, k) :
                  \A i, j \in 1..n : colors[i] = colors[j] => l[i] = l[j] }
    IN { fit \in UNION { fits(l) : l \in labellings } : nearest(fit) }

\* best_cluster_idx = np.argmin(distances to the median colour); the
\* numbering of the clusters is not known, so every cluster with members
\* at the least distance can be the first
BestClusters(colors, fit) ==
    LET distance(j) == Norm12(fit.centers[j], Median12(colors))
        used == { fit.labels[i] : i \in 1..Len(colors) }
    IN { j \in used : \A h \in used : distance(j) <= distance(h) }

Clamp(lo, x, hi) == Max(lo, Min(hi, x))

\* ImprovedSkinToneAnalyzer.calculate_clustering_confidence, in 1/SCALE:
\* avg_intra_distance = intra / m and avg_inter_distance = inter / others
calculate_clustering_confidence(colors, fit, best_cluster_idx) ==
    LET n == Len(colors)
        k == Len(fit.centers)
        best_cluster == { i \in 1..n : fit.labels[i] = best_cluster_idx }
        score(A, B) ==
            IF B > 0
            THEN Clamp(0, ((((B - A) * SCALE) \div Max(A, B)) + SCALE) \div 2,
                       SCALE)
            ELSE HALF
        scaled(intra, m, inter, others) ==
            IF others = 0
            THEN score(intra, 2 * intra)
            ELSE score(intra * others, inter * m)
    IN IF Cardinality(best_cluster) < 2
       THEN Pct(30)
       ELSE scaled(SumOver([i \in 1..n |->
                               IF i \in best_cluster
                               THEN Norm12(Scale12(colors[i]),
                                           fit.centers[best_cluster_idx])
                               ELSE 0], n),
                   Cardinality(best_cluster),
                   SumOver([j \in 1..k |->
                               IF j # best_cluster_idx
                               THEN Norm12(fit.centers[best_cluster_idx],
                                           fit.centers[j])
                               ELSE 0], k),
                   k - 1)

\* lines 342-346: the colours the clustering runs on
CleanedColors(all_colors) ==
    LET fallback(cleaned_colors) ==
            IF Len(cleaned_colors) < 2 THEN all_colors ELSE cleaned_colors
    IN fallback(remove_color_outliers(all_colors))

n_clusters == 4

\* what advanced_color_clustering has no K-means outcome for
NoFit == [labels |-> << >>, centers |-> << >>]

\* the outcomes of the K-means step of advanced_color_clustering
ClusteringFits(region_colors) ==
    IF Len(region_colors) < 3
    THEN { NoFit }
    ELSE KMeansFits(CleanedColors(region_colors),
                    Min(n_clusters, Len(CleanedColors(region_colors))))

\* ImprovedSkinToneAnalyzer.advanced_color_clustering, the colour in
\* twelfths, for the outcome fit of K-means and its cluster nearest to
\* the median
advanced_color_clustering_fitted(region_colors, fit, best_cluster_idx) ==
    IF region_colors = << >>
    THEN [color12 |-> Scale12(NeutralDefault), confidence |-> Pct(30)]
    ELSE IF Len(region_colors) < 3
    THEN [color12 |-> MeanOf12(region_colors, 1..Len(region_colors)),
          confidence |-> Pct(40)]
    ELSE [color12 |-> fit.centers[best_cluster_idx],
          confidence |-> calculate_clustering_confidence(
                             CleanedColors(region_colors), fit,
                             best_cluster_idx)]

MaxRegions == 4
\* the colours of the skin regions of the model
RegionColours ==
    { <<246, 237, 228>>, <<215, 189, 150>>, <<130, 92, 67>>, <<58, 49, 42>> }

RegionLists ==
    { << >> } \cup
    UNION { [1..n -> RegionColours] : n \in 1..MaxRegions }

\* analyzer.remove_color_outliers(colors)
CallRemoveColorOutliers ==
    /\ call = NoCall
    /\ \E colors \in RegionLists \ { << >> } :
          call' = [fn |-> "remove_color_outliers",
                   colors |-> colors,
                   result |-> remove_color_outliers(colors)]
    /\ UNCHANGED <<outfits_table, makeup_table, request, outfits, makeup,
                   response, candidates, MONK_SKIN_TONES,
                   mst_palette_data, cached_data>>

\* analyzer.advanced_color_clustering(region_colors)
CallClusterRegionColors ==
    /\ call = NoCall
    /\ \E region_colors \in RegionLists :
          \E fit \in ClusteringFits(region_colors) :
              \E best_cluster_idx \in
                      (IF fit = NoFit THEN {0}
                       ELSE BestClusters(CleanedColors(region_colors), fit)) :
                  call' = [fn |-> "advanced_color_clustering",
                           region_colors |-> region_colors,
                           result |-> advanced_color_clustering_fitted(
                                          region_colors, fit,
                                          best_cluster_idx)]
    /\ UNCHANGED <<outfits_table, makeup_table, request, outfits, makeup,
                   response, candidates, MONK_SKIN_TONES,
                   mst_palette_data, cached_data>>

NextCluster ==
    \/ CallRemoveColorOutliers
    \/ CallClusterRegionColors

SpecCluster == Init /\ [][NextCluster]_vars

(***************************************************************************)
(* Claims about the colour estimation by sample count.                     *)
(***************************************************************************)
ClusteringCall == call.fn = "advanced_color_clustering"
OutlierCall == call.fn = "remove_color_outliers"

RECURSIVE IsSubCollection(_, _)
\* sub holds elements of s in the order of s
IsSubCollection(sub, s) ==
    IF sub = << >> THEN TRUE
    ELSE IF s = << >> THEN FALSE
    ELSE IF Head(sub) = Head(s) THEN IsSubCollection(Tail(sub), Tail(s))
    ELSE IsSubCollection(sub, Tail(s))

\* the brightness of colour c is within f2 / 2 times the interquartile
\* range of the quartiles of the brightnesses of colors
InsideFence(c, colors, f2) ==
    LET brightness == [i \in 1..Len(colors) |-> Sum3(colors[i])]
        Q1 == Percentile4(brightness, 1)
        Q3 == Percentile4(brightness, 3)
    IN /\ 8 * Sum3(c) >= 2 * Q1 - f2 * (Q3 - Q1)
       /\ 8 * Sum3(c) <= 2 * Q3 + f2 * (Q3 - Q1)

\* the survivors of the fence of f2 / 2 times the interquartile range
Survivors(colors, f2) ==
    LET inside(c) == InsideFence(c, colors, f2) IN SelectSeq(colors, inside)

\* the fence of the claim: 2.5 * IQR exactly when the 1.5 * IQR fence keeps
\* fewer than half of the colours
ClaimedFence(colors) ==
    IF 2 * Len(Survivors(colors, 3)) < Len(colors) THEN 5 ELSE 3

\* C25: with 1 or 2 samples advanced_color_clustering returns their
\* arithmetic mean with a confidence between 0.3 and 0.4; with 3 or more
\* samples remove_color_outliers keeps the colours inside the 1.5 * IQR
\* brightness fence, or inside the 2.5 * IQR fence exactly when the 1.5
\* fence keeps fewer than half, its result is a non-empty sub-collection
\* of its input, and the confidence of advanced_color_clustering is in
\* [0, 1].
C25_EstimationBySampleCount ==
    /\ (ClusteringCall /\ Len(call.region_colors) \in 1..2)
          => /\ \A ch \in 1..3 :
                    Len(call.region_colors) * call.result.color12[ch]
                        = 12 * SumOver([i \in 1..Len(call.region_colors) |->
                                           call.region_colors[i][ch]],
                                       Len(call.region_colors))
             /\ call.result.confidence >= Pct(30)
             /\ call.result.confidence <= Pct(40)
    /\ (ClusteringCall /\ Len(call.region_colors) >= 3)
          => /\ call.result.confidence >= 0
             /\ call.result.confidence <= SCALE
    /\ (OutlierCall /\ Len(call.colors) >= 3)
          => /\ call.result # << >>
             /\ IsSubCollection(call.result, call.colors)
             /\ \/ call.result
                       = Survivors(call.colors, ClaimedFence(call.colors))
                \/ /\ Survivors(call.colors, ClaimedFence(call.colors))
                          = << >>
                   /\ call.result = call.colors

\* C25 witness: remove_color_outliers has dropped a colour outside the
\* 1.5 * IQR fence from four colours and kept the other three.
C25_Witness ==
    /\ OutlierCall
    /\ Len(call.colors) = MaxRegions
    /\ Len(call.result) = MaxRegions - 1
    /\ \E i \in 1..Len(call.colors) :
          ~InsideFence(call.colors[i], call.colors, 3)

(***************************************************************************)
(* The skin-pixel filter (improved_skin_tone_analyzer.py,                  *)
(* apply_skin_color_filter).  pixels is an array of shape (N, 3), a        *)
(* sequence of RGB colours.                                                *)
(***************************************************************************)
\* CV_DESCALE(x, 14) and saturate_cast<uchar>
Descale14(x) == (x + 8192) \div 16384
SaturateU8(x) == Max(0, Min(MaxChannel, x))

\* cv2.cvtColor(..., cv2.COLOR_RGB2YCrCb) of one 8-bit pixel, in OpenCV's
\* fixed point: Y = 0.299 R + 0.587 G + 0.114 B, Cr = 0.713 (R - Y) + 128,
\* Cb = 0.564 (B - Y) + 128
cv2_RGB2YCrCb(rgb) ==
    LET from(Y) ==
            << SaturateU8(Y),
               SaturateU8(Descale14((rgb[1] - Y) * 11682 + 128 * 16384)),
               SaturateU8(Descale14((rgb[3] - Y) * 9241 + 128 * 16384)) >>
    IN from(Descale14(rgb[1] * 4899 + rgb[2] * 9617 + rgb[3] * 1868))

\* self.skin_color_ranges
skin_color_ranges ==
    [ycrcb_narrow |-> [lower |-> <<0, 133, 77>>, upper |-> <<255, 173, 127>>],
     ycrcb_wide |-> [lower |-> <<0, 125, 70>>, upper |-> <<255, 180, 135>>],
     hsv_range |-> [lower |-> <<0, 20, 70>>, upper |-> <<20, 255, 255>>]]

\* cv2.inRange(src, lowerb, upperb) for src of shape (N, 3).  OpenCV reads
\* a two-dimensional array as a matrix of N rows, 3 columns and ONE
\* channel; a bound that is not an array of the size of src must be a
\* scalar of as many elements as src has channels, else inRange raises
\* "The lower boundary is neither an array of the same size and same type
\* as src, nor a scalar".  The mask has an entry for every element of src.
cv2_inRange(src, lowerb, upperb) ==
    IF Len(lowerb) # 1 \/ Len(upperb) # 1
    THEN Raise("cv2.error")
    ELSE Ok([i \in 1..(3 * Len(src)) |->
                LET v == src[((i - 1) \div 3) + 1][((i - 1) % 3) + 1]
                IN lowerb[1] <= v /\ v <= upperb[1]])

\* ImprovedSkinToneAnalyzer.apply_skin_color_filter.  cvtColor raises for
\* an array without pixels, and inRange raises for the (N, 3) array and
\* the three-element bounds it is given: the except clause returns the
\* pixels as they came.  Were a mask returned, its 3 * N entries would not
\* combine with the N brightness values (ValueError, same except clause),
\* and for N = 1 the cascade ends in the one pixel there is.
apply_skin_color_filter(pixels) ==
    IF pixels = << >>
    THEN pixels
    ELSE LET ycrcb_pixels == [i \in 1..Len(pixels) |->
                                 cv2_RGB2YCrCb(pixels[i])]
             ycrcb_mask == cv2_inRange(ycrcb_pixels,
                                       skin_color_ranges.ycrcb_narrow.lower,
                                       skin_color_ranges.ycrcb_narrow.upper)
         IN IF ycrcb_mask.exc # ""
            THEN pixels
            ELSE pixels

MaxSkinPixels == 12
MaxOtherPixels == 3
\* pixels of skin and pixels of a background
SkinPixels == { <<215, 189, 150>>, <<130, 92, 67>> }
OtherPixels == { <<0, 0, 255>>, <<255, 255, 255>>, <<10, 10, 10>> }

\* the pixels of a region: n of skin followed by m of the background
RegionPixels ==
    { [i \in 1..(n + m) |-> IF i <= n THEN s ELSE o] :
          s \in SkinPixels, o \in OtherPixels,
          n \in 0..MaxSkinPixels, m \in 0..MaxOtherPixels }

\* analyzer.apply_skin_color_filter(pixels)
CallApplySkinColorFilter ==
    /\ call = NoCall
    /\ \E pixels \in RegionPixels :
          call' = [fn |-> "apply_skin_color_filter",
                   pixels |-> pixels,
                   result |-> apply_skin_color_filter(pixels)]
    /\ UNCHANGED <<outfits_table, makeup_table, request, outfits, makeup,
                   response, candidates, MONK_SKIN_TONES,
                   mst_palette_data, cached_data>>

NextFilter == CallApplySkinColorFilter

SpecFilter == Init /\ [][NextFilter]_vars

(***************************************************************************)
(* Claims about the skin-pixel filter.                                     *)
(***************************************************************************)
FilterCall == call.fn = "apply_skin_color_filter"

InRange3(v, range) ==
    \A c \in 1..3 : range.lower[c] <= v[c] /\ v[c] <= range.upper[c]

InBrightnessBand(p) == Sum3(p) > 3 * 50 /\ Sum3(p) < 3 * 240

PassesNarrowOrHsv(p) ==
    /\ \/ InRange3(cv2_RGB2YCrCb(p), skin_color_ranges.ycrcb_narrow)
       \/ InRange3(cv2_RGB2HSV(p), skin_color_ranges.hsv_range)
    /\ InBrightnessBand(p)

PassesWide(p) ==
    /\ InRange3(cv2_RGB2YCrCb(p), skin_color_ranges.ycrcb_wide)
    /\ InBrightnessBand(p)

\* C26: apply_skin_color_filter returns the pixels passing (YCrCb-narrow
\* or HSV) and the brightness band 50..240 when more than 10 pass;
\* otherwise the pixels passing YCrCb-wide and the brightness band when
\* more than 5 pass; otherwise up to 50 of its pixels; the result is
\* never empty for a non-empty input.
C26_FilterCascade ==
    FilterCall
        => /\ call.pixels # << >> => call.result # << >>
           /\ IF Len(SelectSeq(call.pixels, PassesNarrowOrHsv)) > 10
              THEN call.result = SelectSeq(call.pixels, PassesNarrowOrHsv)
              ELSE IF Len(SelectSeq(call.pixels, PassesWide)) > 5
              THEN call.result = SelectSeq(call.pixels, PassesWide)
              ELSE Len(call.result) <= 50

(***************************************************************************)
(* Claims about the tone name and the table it is looked up in.            *)
(***************************************************************************)
\* C27: the tone name find_closest_monk_tone_advanced returns is a key of
\* the monk_tones table it was given, the ten-entry table or the
\* three-entry emergency table, so that monk_tones[closest_monk] succeeds.
C27_ToneNameIsKey ==
    (AdvancedMatcherCall /\ call.monk_tones \in {MONK_TONES, EmergencyTones})
        => \E i \in 1..Len(call.monk_tones) :
               call.monk_tones[i][1] = call.result.category

(***************************************************************************)
(* Claims about the hue and the Lab term of the combined distance.         *)
(***************************************************************************)
\* the hue term the analyzer of the call computes for two hues
HueTerm(h1, h2) ==
    IF call.analyzer = "enhanced"
    THEN Enhanced_hue_diff(h1, h2)
    ELSE Improved_hue_diff(h1, h2)

\* min(|h1 - h2|, 180 - |h1 - h2|)
CircularHueDistance(h1, h2) == Min(Abs(h1 - h2), 180 - Abs(h1 - h2))

\* the reference colours of the table of the call
ReferenceColours ==
    [i \in 1..Len(call.monk_tones) |-> MonkRgb(call.monk_tones[i][2]).value]

\* C28: for the estimate of a matcher call and every reference colour of
\* its table, the hue term is min(|h1 - h2|, 180 - |h1 - h2|) of the two
\* 8-bit hues, the same in both orders and within 0..90, and the sum of
\* the squared Lab differences is the sum of the true integer squares.
C28_NoWraparound ==
    AdvancedMatcherCall
        => \A i \in 1..Len(call.monk_tones) :
               /\ HueTerm(cv2_RGB2HSV(call.rgb_color)[1],
                          cv2_RGB2HSV(ReferenceColours[i])[1])
                      = CircularHueDistance(
                            cv2_RGB2HSV(call.rgb_color)[1],
                            cv2_RGB2HSV(ReferenceColours[i])[1])
               /\ HueTerm(cv2_RGB2HSV(call.rgb_color)[1],
                          cv2_RGB2HSV(ReferenceColours[i])[1])
                      = HueTerm(cv2_RGB2HSV(ReferenceColours[i])[1],
                                cv2_RGB2HSV(call.rgb_color)[1])
               /\ HueTerm(cv2_RGB2HSV(call.rgb_color)[1],
                          cv2_RGB2HSV(ReferenceColours[i])[1]) \in 0..90
               /\ Uint8SquaredDistance(cv2_RGB2LAB(call.rgb_color),
                                       cv2_RGB2LAB(ReferenceColours[i]))
                      = SquaredRgbDistance(cv2_RGB2LAB(call.rgb_color),
                                           cv2_RGB2LAB(ReferenceColours[i]))

(***************************************************************************)
(* MSTDatabaseService (src/backend/prods_fastapi/mst_database_service.py). *)
(* A row of mst_master_palette is written with the columns mst_id,         *)
(* base_palette and notes; the other columns are converted as these are.   *)
(* A dict is a sequence of <<key, value>> pairs.                           *)
(***************************************************************************)
\* MSTDatabaseService.monk_tone_to_mst_id: the first run of digits of
\* str(monk_tone), else int(monk_tone), else 5
MST_monk_tone_to_mst_id(monk_tone) ==
    IF SearchDigits(monk_tone) # << >>
    THEN DecimalValue(SearchDigits(monk_tone))
    ELSE IF IntOfStr(monk_tone).exc # ""
    THEN 5
    ELSE IntOfStr(monk_tone).value

\* value or default, for a column that can be NULL or empty
OrDefault(value, default) ==
    IF value = None \/ value = << >> THEN default ELSE value

\* lines 64-81: the palette built from a record
PaletteFromRecord(record) ==
    [mst_id |-> record.mst_id,
     base_palette |-> OrDefault(record.base_palette, << >>),
     notes |-> OrDefault(record.notes, << >>)]

\* the None or the palette get_mst_palette returns
NoPalette == [is_none |-> TRUE, palette |-> [mst_id |-> 0]]
SomePalette(p) == [is_none |-> FALSE, palette |-> p]

\* cursor.fetchone() after SELECT * FROM mst_master_palette WHERE mst_id = %s
FetchPalette(db, mst_id) ==
    IF \E i \in 1..Len(db.rows) : db.rows[i].mst_id = mst_id
    THEN SomePalette(db.rows[CHOOSE i \in 1..Len(db.rows) :
                                 /\ db.rows[i].mst_id = mst_id
                                 /\ \A j \in 1..(i - 1) :
                                        db.rows[j].mst_id # mst_id])
    ELSE NoPalette

\* a service that remembers the lookups that found nothing
get_mst_palette_CachesMisses(cache, monk_tone, db) ==
    [result |-> NoPalette,
     cached_data |-> DictSet(cache, MST_monk_tone_to_mst_id(monk_tone),
                             [mst_id |-> 0]),
     queried |-> TRUE]

\* MSTDatabaseService.get_mst_palette: the value returned, the cache after
\* the call, and whether the database was asked
get_mst_palette(cache, monk_tone, db) ==
    LET lookup(mst_id) ==
            LET fetched(record) ==
                    IF record.is_none
                    THEN [result |-> NoPalette, cached_data |-> cache,
                          queried |-> TRUE]
                    ELSE [result |->
                              SomePalette(PaletteFromRecord(record.palette)),
                          cached_data |->
                              DictSet(cache, mst_id,
                                      PaletteFromRecord(record.palette)),
                          queried |-> TRUE]
            IN IF \E i \in 1..Len(cache) : cache[i][1] = mst_id
               THEN [result |-> SomePalette(DictGet(cache, mst_id, 0)),
                     cached_data |-> cache,
                     queried |-> FALSE]
               ELSE IF db.fails
               THEN [result |-> NoPalette, cached_data |-> cache,
                     queried |-> TRUE]
               ELSE fetched(FetchPalette(db, mst_id))
    IN lookup(MST_monk_tone_to_mst_id(monk_tone))

\* a row of mst_master_palette, as first loaded or as later edited with
\* NULL columns
PaletteRow(id, edited) ==
    [mst_id |-> id,
     base_palette |-> IF edited THEN None ELSE << "#111111", "#222222" >>,
     notes |-> IF edited THEN None ELSE << "n", "o", "t", "e" >>]

PaletteIds == << 1, 5, 10 >>

\* the states of the database a lookup can meet
PaletteDbStates ==
    { [fails |-> TRUE, rows |-> << >>],
      [fails |-> FALSE, rows |-> << >>],
      [fails |-> FALSE, rows |-> << PaletteRow(5, FALSE) >>] } \cup
    { [fails |-> FALSE,
       rows |-> [i \in 1..Len(PaletteIds) |-> PaletteRow(PaletteIds[i], e)]] :
          e \in BOOLEAN }

PaletteToneInputs ==
    { << "M","o","n","k","0","1" >>, << "M","o","n","k"," ","5" >>,
      << "1","0" >>, << "M","o","n","k" >>, << "7" >> }

\* mst_service.get_mst_palette(monk_tone)
GetMstPalette ==
    /\ \E monk_tone \in PaletteToneInputs, db \in PaletteDbStates :
          LET returned(r) ==
                  /\ cached_data' = r.cached_data
                  /\ call' = [fn |-> "get_mst_palette",
                              monk_tone |-> monk_tone,
                              db |-> db,
                              queried |-> r.queried,
                              result |-> r.result]
          IN returned(get_mst_palette(cached_data, monk_tone, db))
    /\ UNCHANGED <<outfits_table, makeup_table, request, outfits, makeup,
                   response, candidates, MONK_SKIN_TONES, mst_palette_data>>

NextPalette == GetMstPalette

SpecPalette == Init /\ [][NextPalette]_vars

(***************************************************************************)
(* Claims about the palette cache.                                         *)
(***************************************************************************)
\* the mst_id the lookup of the next state is for
LookupId == MST_monk_tone_to_mst_id(call'.monk_tone)

Cached(cache, mst_id) == \E i \in 1..Len(cache) : cache[i][1] = mst_id

\* C29: every entry of the cache is stored under the mst_id of the palette
\* it holds; a lookup of a cached id returns the cached palette without
\* asking the database and leaves the cache as it was; a lookup that finds
\* no record, or whose database fails, returns None and adds no entry; and
\* a lookup that finds a record returns its palette and adds it under its
\* mst_id.
C29_CacheIsSound ==
    [][call'.fn = "get_mst_palette"
          => /\ \A i \in 1..Len(cached_data') :
                    cached_data'[i][2].mst_id = cached_data'[i][1]
             /\ IF Cached(cached_data, LookupId)
                THEN /\ ~call'.queried
                     /\ call'.result
                            = SomePalette(DictGet(cached_data, LookupId, 0))
                     /\ cached_data' = cached_data
                ELSE IF call'.db.fails \/ FetchPalette(call'.db, LookupId).is_none
                THEN /\ call'.result = NoPalette
                     /\ cached_data' = cached_data
                ELSE /\ call'.queried
                     /\ ~call'.result.is_none
                     /\ call'.result.palette.mst_id = LookupId
                     /\ cached_data'
                            = Append(cached_data,
                                     << LookupId, call'.result.palette >>)]_vars

\* C29 witness: a lookup has returned a cached palette while the database
\* was down, and the cache holds the three palettes.
C29_Witness ==
    /\ call.fn = "get_mst_palette"
    /\ call.db.fails
    /\ ~call.queried
    /\ ~call.result.is_none
    /\ Len(cached_data) = Len(PaletteIds)

(***************************************************************************)
(* The API gateway (src/services/api_gateway.py).  What a downstream       *)
(* service does with GET /health is a status code, or the exception        *)
(* httpx raises when it does not answer.                                   *)
(***************************************************************************)
\* the services dict of health(), in its order, with the default URLs
GatewayServices ==
    << << "detection", "http://localhost:8001" >>,
       << "palette", "http://localhost:8002" >>,
       << "recommendation", "http://localhost:8003" >> >>

HealthAnswered(status_code) == [exc |-> "", status_code |-> status_code]
HealthNotAnswered(e) == [exc |-> e, status_code |-> 0]

\* what client.get(f"{service_url}/health", timeout=5.0) can do
HealthOutcomes ==
    {HealthAnswered(c) : c \in {200, 404, 500, 503}} \cup
    {HealthNotAnswered(e) : e \in {"ConnectError", "ReadTimeout"}}

RECURSIVE health_loop(_, _, _, _)
\* for service_name, service_url in services.items(): with the services
\* from the i-th on still to ask
health_loop(outcomes, i, services_status, overall_healthy) ==
    IF i > Len(GatewayServices)
    THEN [services_status |-> services_status,
          overall_healthy |-> overall_healthy]
    ELSE IF outcomes[i].exc = ""
    THEN health_loop(outcomes, i + 1,
             DictSet(services_status, GatewayServices[i][1],
                 << << "status", IF outcomes[i].status_code = 200
                                 THEN "healthy" ELSE "unhealthy" >>,
                    << "url", GatewayServices[i][2] >> >>),
             overall_healthy)
    ELSE health_loop(outcomes, i + 1,
             DictSet(services_status, GatewayServices[i][1],
                 << << "status", "unhealthy" >>,
                    << "error", outcomes[i].exc >>,
                    << "url", GatewayServices[i][2] >> >>),
             FALSE)

\* health(): the body of the response
health(outcomes) ==
    LET answer(loop) ==
            [gateway_status |-> "healthy",
             overall_status |-> IF loop.overall_healthy
                                THEN "healthy" ELSE "degraded",
             services |-> loop.services_status]
    IN answer(health_loop(outcomes, 1, << >>, TRUE))

\* GET /health
GetHealth ==
    /\ \E outcomes \in [1..Len(GatewayServices) -> HealthOutcomes] :
          call' = [fn |-> "health",
                   outcomes |-> outcomes,
                   result |-> health(outcomes)]
    /\ UNCHANGED <<outfits_table, makeup_table, request, outfits, makeup,
                   response, candidates, MONK_SKIN_TONES, mst_palette_data,
                   cached_data>>

NextGateway == GetHealth

SpecGateway == Init /\ [][NextGateway]_vars

(***************************************************************************)
(* Claims about the gateway.                                               *)
(***************************************************************************)
HealthCall == call.fn = "health"

\* the status the response reports for the i-th service
ReportedStatus(i) ==
    DictGet(DictGet(call.result.services, GatewayServices[i][1], << >>),
            "status", "")

\* C30: the response of /health has overall_status 'healthy' exactly when
\* each of the three services is reported 'healthy', and 'degraded' when a
\* service answered with another status than 200 or did not answer.
C30_OverallIffEveryServiceHealthy ==
    HealthCall =>
        /\ call.result.overall_status = "healthy"
               <=> \A i \in 1..Len(GatewayServices) :
                       ReportedStatus(i) = "healthy"
        /\ (\E i \in 1..Len(GatewayServices) :
                \/ call.outcomes[i].exc # ""
                \/ call.outcomes[i].status_code # 200)
               => call.result.overall_status = "degraded"

====
